---------------------------- MODULE Spec2Model ----------------------------
(***************************************************************************)
(* Service Configuration Resolution Engine of localai-ui.                  *)
(*                                                                         *)
(* The model follows the React component ServiceOrchestrator               *)
(* (src/localai-ui/src/components/ServiceOrchestrator.tsx, lines 1-644),   *)
(* the helpers of utils/serviceOrchestration.ts (src/unnamed/part_004)     *)
(* and the catalog data/serviceDefinitions.ts (src/unnamed/part_006).      *)
(*                                                                         *)
(* customServices.services is a two-level map category -> id -> config in  *)
(* the source.  Every id of a catalog occurs in exactly one category, so   *)
(* the model keeps one map id -> config whose entries carry categoryId,    *)
(* and walks it in the catalog's Object.entries order (the order field).   *)
(***************************************************************************)
EXTENDS Integers, Sequences, FiniteSets, TLC

VARIABLES
    catalog,             \* which serviceDefinitions the build carries (immutable at run time)
    customServices,      \* useState<CustomServicesJson | null>
    selectedProfile,     \* useState<string>('cpu')
    selectedEnvironment, \* useState<string>('private')
    saveMessage,         \* useState<string | null>
    error,               \* useState<string | null>
    loading,             \* useState(false)
    request,             \* the request the component awaits, if any
    file,                \* shared/custom_services.json: its text, or null if absent
    posts,               \* POST /api/custom-services being handled, per session
    lastToggle,          \* record of the last single-service toggle (observer)
    lastSaved,           \* record of the last Save Configuration (observer)
    outputFile,          \* output/custom_services.json: the request whose text it holds
    dockerClient,        \* the backend's DockerClientWrapper: docker, connected
    apiRequests,         \* /api/docker requests being handled by the backend
    lastPing,            \* outcome of the last Docker ping completed (observer)
    monitoring,          \* MonitoringDashboard: useState<MonitoringState>
    statsRequests        \* the dashboard's stats fetches, in flight and settled

\* the configuration editor and its store
editorVars == <<catalog, customServices, selectedProfile, selectedEnvironment,
                saveMessage, error, loading, request, file, posts, lastToggle, lastSaved,
                outputFile>>

\* the Docker monitoring side: backend client and dashboard
monitoringVars == <<dockerClient, apiRequests, lastPing, monitoring, statsRequests>>

vars == <<editorVars, monitoringVars>>

\* null, for the state that holds an object or null
None == [null |-> TRUE]
Undefined == "undefined"

(***************************************************************************)
(* Sequence helpers.                                                       *)
(***************************************************************************)
Range(s) == {s[i] : i \in 1..Len(s)}

\* Array.prototype.includes
Includes(s, x) == x \in Range(s)

\* for (const x of more) if (!all.includes(x)) all.push(x)
RECURSIVE PushNew(_, _)
PushNew(all, more) ==
    IF more = <<>> THEN all
    ELSE PushNew(IF Includes(all, Head(more)) THEN all ELSE Append(all, Head(more)),
                 Tail(more))

\* Array.prototype.filter over ids
RECURSIVE Filter(_, _)
Filter(s, keep) ==
    IF s = <<>> THEN <<>>
    ELSE IF Head(s) \in keep THEN <<Head(s)>> \o Filter(Tail(s), keep)
    ELSE Filter(Tail(s), keep)

\* a map with no keys (an absent profiles / pull_services object)
NoMap == [p \in {} |-> ""]

\* the browser sessions that post to the backend: the component modelled
\* here and another operator's
Sessions == {"ui", "other"}
NoPosts == [session \in Sessions |-> None]

(***************************************************************************)
(* Catalog: data/serviceDefinitions.ts.                                    *)
(***************************************************************************)
\* every definition also names a database under an id the catalog lacks
ServiceDef_secondSpelling(categoryId, dependencies, required, profiles, pull_services) ==
    [categoryId |-> categoryId, dependencies |-> Append(dependencies, "db"),
     required |-> required, profiles |-> profiles,
     pull_services |-> pull_services]

ServiceDef(categoryId, dependencies, required, profiles, pull_services) ==
    [categoryId |-> categoryId, dependencies |-> dependencies,
     required |-> required, profiles |-> profiles,
     pull_services |-> pull_services]

OllamaProfiles ==
    [p \in {"cpu", "gpu-nvidia", "gpu-amd"} |->
        CASE p = "cpu" -> "ollama-cpu"
          [] p = "gpu-nvidia" -> "ollama-gpu"
          [] p = "gpu-amd" -> "ollama-gpu-amd"]

OllamaPullServices ==
    [p \in {"cpu", "gpu-nvidia", "gpu-amd"} |->
        CASE p = "cpu" -> "ollama-pull-llama-cpu"
          [] p = "gpu-nvidia" -> "ollama-pull-llama-gpu"
          [] p = "gpu-amd" -> "ollama-pull-llama-gpu-amd"]

\* ids in Object.entries order: categories in order, services in order
ServiceOrder ==
    <<"caddy", "n8n", "n8n-import", "open-webui", "flowise", "ollama",
      "supabase", "postgres", "clickhouse", "redis", "qdrant", "neo4j", "minio",
      "langfuse-web", "langfuse-worker", "searxng">>

LangfuseStores == <<"postgres", "clickhouse", "redis", "minio">>

serviceDefinitions ==
    [id \in Range(ServiceOrder) |->
        CASE id = "caddy" -> ServiceDef("core", <<>>, FALSE, NoMap, NoMap)
          [] id = "n8n" -> ServiceDef("ai_platforms", <<"supabase">>, FALSE, NoMap, NoMap)
          [] id = "n8n-import" -> ServiceDef("ai_platforms", <<"n8n">>, FALSE, NoMap, NoMap)
          [] id \in {"open-webui", "flowise"} ->
                ServiceDef("ai_platforms", <<>>, FALSE, NoMap, NoMap)
          [] id = "ollama" ->
                ServiceDef("llm_services", <<>>, FALSE, OllamaProfiles, OllamaPullServices)
          [] id \in {"supabase", "postgres", "clickhouse", "redis", "qdrant",
                     "neo4j", "minio"} ->
                ServiceDef("databases", <<>>, FALSE, NoMap, NoMap)
          [] id = "langfuse-web" ->
                ServiceDef("monitoring", <<"langfuse-worker">> \o LangfuseStores,
                           FALSE, NoMap, NoMap)
          [] id = "langfuse-worker" ->
                ServiceDef("monitoring", LangfuseStores, FALSE, NoMap, NoMap)
          [] id = "searxng" -> ServiceDef("utilities", <<>>, FALSE, NoMap, NoMap)]

\* services/legacy data: defaultCustomServices marks caddy required and lets
\* n8n depend on n8n-import and supabase
defaultCustomServices ==
    [id \in {"caddy", "n8n", "n8n-import", "ollama", "supabase"} |->
        CASE id = "caddy" -> ServiceDef("core", <<>>, TRUE, NoMap, NoMap)
          [] id = "n8n" ->
                ServiceDef("ai_platforms", <<"n8n-import", "supabase">>, FALSE, NoMap, NoMap)
          [] id = "n8n-import" -> ServiceDef("ai_platforms", <<>>, FALSE, NoMap, NoMap)
          [] id = "ollama" ->
                ServiceDef("llm_services", <<>>, FALSE, OllamaProfiles, OllamaPullServices)
          [] id = "supabase" -> ServiceDef("databases", <<>>, FALSE, NoMap, NoMap)]

ProfileNames == {"cpu", "gpu-nvidia", "gpu-amd", "none"}
EnvironmentNames == {"private", "public"}

\* Object.entries(profileDefinitions).find(([, p]) => p.default)?.[0] || 'cpu'
defaultProfile == "cpu"
\* Object.entries(environmentDefinitions).find(([, e]) => e.default)?.[0] || 'private'
defaultEnvironment == "private"


(***************************************************************************)
(* The catalogs the model is run on.  The shipped catalog has sixteen      *)
(* services; a toggle only touches the services connected to the toggled   *)
(* one by dependency edges, so the model runs on parts of the shipped      *)
(* catalog that keep whole dependency chains: the workflow part            *)
(* (n8n-import -> n8n -> supabase, with ollama and caddy) and the          *)
(* monitoring part (langfuse-web -> langfuse-worker -> stores), the latter *)
(* with the first MaxLangfuseStores of its four stores.  LegacyCatalog is  *)
(* the legacy defaultCustomServices, the one definition set of the         *)
(* repository that marks a service required.                               *)
(***************************************************************************)
MaxLangfuseStores == 2

Slice(ids) ==
    [order |-> Filter(ServiceOrder, ids),
     defs |-> [id \in ids |->
                 [serviceDefinitions[id] EXCEPT !.dependencies = Filter(@, ids)]]]

WorkflowCatalog == Slice({"caddy", "n8n", "n8n-import", "ollama", "supabase"})

MonitoringCatalog ==
    Slice({"langfuse-web", "langfuse-worker"} \cup
          {LangfuseStores[i] : i \in 1..(IF MaxLangfuseStores < Len(LangfuseStores)
                                          THEN MaxLangfuseStores
                                          ELSE Len(LangfuseStores))})

LegacyCatalog ==
    [order |-> <<"caddy", "n8n", "n8n-import", "ollama", "supabase">>,
     defs |-> defaultCustomServices]

CatalogNames == {"shipped-workflow", "shipped-monitoring", "legacy"}

\* the part of the shipped catalog the store is modelled with: a service
\* with profile variants and one without
LlmCatalog == Slice({"caddy", "ollama"})

StoreCatalogNames == {"shipped-llm"}

\* Catalogs as an author could write them, cycles included: three services,
\* each with any list of the three ids (its own too) as dependencies, in any
\* order.  The i-th catalog takes the dependency lists of A, B and C from
\* the digits of i - 1 to the base Len(DependencyLists).
AuthoredOrder == <<"A", "B", "C">>

DependencyLists ==
    << <<>>, <<"A">>, <<"B">>, <<"C">>,
       <<"A", "B">>, <<"B", "A">>, <<"A", "C">>, <<"C", "A">>,
       <<"B", "C">>, <<"C", "B">>,
       <<"A", "B", "C">>, <<"A", "C", "B">>, <<"B", "A", "C">>,
       <<"B", "C", "A">>, <<"C", "A", "B">>, <<"C", "B", "A">> >>

AuthoredCatalogCount == Len(DependencyLists) * Len(DependencyLists) * Len(DependencyLists)

AuthoredCatalog(i) ==
    LET base == Len(DependencyLists)
        digit(id) == CASE id = "A" -> (i - 1) % base
                       [] id = "B" -> ((i - 1) \div base) % base
                       [] id = "C" -> (i - 1) \div (base * base)
    IN  [order |-> AuthoredOrder,
         defs |-> [id \in Range(AuthoredOrder) |->
                     ServiceDef("core", DependencyLists[digit(id) + 1], FALSE, NoMap, NoMap)]]

AuthoredCatalogName(i) == "authored-" \o ToString(i)

AuthoredCatalogNames == {AuthoredCatalogName(i) : i \in 1..AuthoredCatalogCount}

\* the catalogs from..to, by name
RECURSIVE AuthoredCatalogsBetween(_, _)
AuthoredCatalogsBetween(from, to) ==
    IF from = to THEN AuthoredCatalogName(from) :> AuthoredCatalog(from)
    ELSE LET middle == (from + to) \div 2
         IN  AuthoredCatalogsBetween(from, middle) @@ AuthoredCatalogsBetween(middle + 1, to)

AuthoredCatalogs == AuthoredCatalogsBetween(1, AuthoredCatalogCount)

\* the whole shipped catalog
ShippedCatalog == [order |-> ServiceOrder, defs |-> serviceDefinitions]

CatalogOf(name) ==
    CASE name = "shipped" -> ShippedCatalog
      [] name = "shipped-workflow" -> WorkflowCatalog
      [] name = "shipped-llm" -> LlmCatalog
      [] name = "shipped-monitoring" -> MonitoringCatalog
      [] name = "legacy" -> LegacyCatalog
      [] OTHER -> AuthoredCatalogs[name]

\* the serviceDefinitions in force
Definitions == CatalogOf(catalog)

ServiceIdsOf(cat) == DOMAIN cat.defs
CategoriesOf(cat) == {cat.defs[id].categoryId : id \in ServiceIdsOf(cat)}

(***************************************************************************)
(* The preference state the backend returns (GET /api/custom-services):    *)
(* entries keyed by category and service id, each with an enabled flag,    *)
(* and the saved profile / environment, either of which may be missing.    *)
(***************************************************************************)
StoredKeys(cat) == {<<cat.defs[id].categoryId, id>> : id \in ServiceIdsOf(cat)}

StoredServices(cat) == UNION {[K -> BOOLEAN] : K \in SUBSET StoredKeys(cat)}

StoredPreferences ==
    {[selectedProfile |-> Undefined, selectedEnvironment |-> Undefined],
     [selectedProfile |-> "gpu-nvidia", selectedEnvironment |-> "public"],
     [selectedProfile |-> "none", selectedEnvironment |-> Undefined]}

ServiceStates(cat) ==
    {[services |-> f, userPreferences |-> up] :
        f \in StoredServices(cat), up \in StoredPreferences}

(***************************************************************************)
(* mergeServiceDefinitionsWithState                                        *)
(***************************************************************************)
\* serviceState?.services?.[categoryId]?.[serviceId]?.enabled || false
StateFromApiEnabled(serviceState, categoryId, serviceId) ==
    /\ <<categoryId, serviceId>> \in DOMAIN serviceState.services
    /\ serviceState.services[<<categoryId, serviceId>>]

\* a merge that lets a stored entry's dependencies and required flag win
mergeServiceDefinitionsWithState_storedWins(cat, serviceState) ==
    [services |->
        [id \in ServiceIdsOf(cat) |->
            LET def == IF id \in DOMAIN serviceState.storedDefinitions
                       THEN serviceState.storedDefinitions[id]
                       ELSE cat.defs[id]
            IN  [enabled |-> StateFromApiEnabled(serviceState, cat.defs[id].categoryId, id),
                 required |-> def.required,
                 categoryId |-> cat.defs[id].categoryId,
                 dependencies |-> def.dependencies,
                 profiles |-> cat.defs[id].profiles,
                 pull_services |-> cat.defs[id].pull_services]],
     userPreferences |->
        [selectedProfile |-> serviceState.userPreferences.selectedProfile,
         selectedEnvironment |-> serviceState.userPreferences.selectedEnvironment]]

mergeServiceDefinitionsWithState(cat, serviceState) ==
    [services |->
        [id \in ServiceIdsOf(cat) |->
            [enabled |-> StateFromApiEnabled(serviceState, cat.defs[id].categoryId, id),
             required |-> cat.defs[id].required,
             categoryId |-> cat.defs[id].categoryId,
             dependencies |-> cat.defs[id].dependencies,
             profiles |-> cat.defs[id].profiles,
             pull_services |-> cat.defs[id].pull_services]],
     userPreferences |->
        [selectedProfile |-> serviceState.userPreferences.selectedProfile,
         selectedEnvironment |-> serviceState.userPreferences.selectedEnvironment]]

(***************************************************************************)
(* Helpers of the component and of utils/serviceOrchestration.ts           *)
(***************************************************************************)
\* an id that is in no category gets an entry of its own
updateServiceInCustomConfig_addsMissing(config, serviceId, enabled) ==
    IF serviceId \in DOMAIN config.services
    THEN [config EXCEPT !.services[serviceId].enabled = enabled]
    ELSE [config EXCEPT !.services =
             [id \in DOMAIN config.services \cup {serviceId} |->
                 IF id = serviceId
                 THEN [enabled |-> enabled, required |-> FALSE, categoryId |-> "core",
                       dependencies |-> <<>>, profiles |-> NoMap, pull_services |-> NoMap]
                 ELSE config.services[id]]]

\* Object.assign(services[serviceId], { enabled }) on a deep copy; an id that
\* is in no category leaves the copy as it is
updateServiceInCustomConfig(config, serviceId, enabled) ==
    IF serviceId \in DOMAIN config.services
    THEN [config EXCEPT !.services[serviceId].enabled = enabled]
    ELSE config

getServiceEnabled(config, serviceId) ==
    IF serviceId \in DOMAIN config.services
    THEN config.services[serviceId].enabled
    ELSE FALSE

\* getServiceDependencies with its shared visited set: the result carries the
\* list returned, the visited set as the call leaves it, and the number of
\* calls of getServiceDependencies made, this one included
RECURSIVE getServiceDependenciesFrom(_, _, _)
RECURSIVE collectTransitive(_, _, _, _, _, _)
getServiceDependenciesFrom(config, serviceId, visited) ==
    IF serviceId \in visited
    THEN [deps |-> <<>>, visited |-> visited, calls |-> 1]
    ELSE IF serviceId \notin DOMAIN config.services
    THEN [deps |-> <<>>, visited |-> visited \cup {serviceId}, calls |-> 1]
    ELSE LET directDependencies == config.services[serviceId].dependencies
         IN  collectTransitive(config, directDependencies, 1, directDependencies,
                               visited \cup {serviceId}, 1)

\* for (const dep of directDependencies) { ... allDependencies.push(...) }
collectTransitive(config, directDependencies, i, allDependencies, visited, calls) ==
    IF i > Len(directDependencies)
    THEN [deps |-> allDependencies, visited |-> visited, calls |-> calls]
    ELSE LET r == getServiceDependenciesFrom(config, directDependencies[i], visited)
         IN  collectTransitive(config, directDependencies, i + 1,
                               PushNew(allDependencies, r.deps), r.visited,
                               calls + r.calls)

\* a walk that gives up when it comes back to the service it started from
getServiceDependencies_abandonsCycle(config, serviceId) ==
    LET walked == getServiceDependenciesFrom(config, serviceId, {}).deps
    IN  IF Includes(walked, serviceId) THEN <<>> ELSE walked

getServiceDependencies(config, serviceId) ==
    getServiceDependenciesFrom(config, serviceId, {}).deps

\* the dependents that are enabled, and no others
getServicesDependingOn_enabledOnly(cat, config, targetServiceId) ==
    Filter(cat.order,
           {id \in DOMAIN config.services :
               /\ config.services[id].enabled
               /\ Includes(config.services[id].dependencies, targetServiceId)})

\* the ids, in configuration order, whose own dependencies include the target
getServicesDependingOn(cat, config, targetServiceId) ==
    Filter(cat.order,
           {id \in DOMAIN config.services :
               Includes(config.services[id].dependencies, targetServiceId)})

\* an update that replaces the entry instead of assigning to it
RECURSIVE updateEach_replacesEntry(_, _, _)
updateEach_replacesEntry(config, ids, enabled) ==
    IF ids = <<>> THEN config
    ELSE updateEach_replacesEntry(
             IF Head(ids) \in DOMAIN config.services
             THEN [config EXCEPT !.services[Head(ids)] =
                      [enabled |-> enabled, required |-> FALSE,
                       categoryId |-> @.categoryId, dependencies |-> <<>>,
                       profiles |-> NoMap, pull_services |-> NoMap]]
             ELSE config,
             Tail(ids), enabled)

\* updatedConfig = updateServiceInCustomConfig(updatedConfig, x, { enabled })
\* for each x of a list
RECURSIVE updateEach(_, _, _)
updateEach(config, ids, enabled) ==
    IF ids = <<>> THEN config
    ELSE updateEach(updateServiceInCustomConfig(config, Head(ids), enabled),
                    Tail(ids), enabled)

(***************************************************************************)
(* handleServiceToggle: the configuration it hands to setCustomServices    *)
(* and the message it shows.                                               *)
(***************************************************************************)
\* the enable branch walking the direct dependencies only
enableCascade_directOnly(config, serviceId) ==
    IF serviceId \in DOMAIN config.services
    THEN config.services[serviceId].dependencies
    ELSE <<>>

\* the services the enable branch walks: the toggled service's dependencies
enableCascade(config, serviceId) == getServiceDependencies(config, serviceId)

\* the disable branch walking the forward edges instead of the reverse ones
disableCascade_forwardEdges(cat, config, serviceId) ==
    IF serviceId \in DOMAIN config.services
    THEN config.services[serviceId].dependencies
    ELSE <<>>

\* the services the disable branch walks: the services depending on it
disableCascade(cat, config, serviceId) == getServicesDependingOn(cat, config, serviceId)

\* a disable that walks the dependencies as the enable does
toggleCascade_dependenciesBothWays(cat, config, serviceId, enabled) ==
    enableCascade(config, serviceId)

toggleCascade(cat, config, serviceId, enabled) ==
    IF enabled THEN enableCascade(config, serviceId)
    ELSE disableCascade(cat, config, serviceId)

\* an enable that assigns the enabled set instead of adding to it
toggledConfig_replaces(cat, config, serviceId, enabled) ==
    LET cleared == [config EXCEPT !.services =
                       [id \in DOMAIN config.services |->
                           [config.services[id] EXCEPT !.enabled = FALSE]]]
    IN  updateEach(updateServiceInCustomConfig(IF enabled THEN cleared ELSE config,
                                               serviceId, enabled),
                   toggleCascade(cat, config, serviceId, enabled), enabled)

toggledConfig(cat, config, serviceId, enabled) ==
    updateEach(updateServiceInCustomConfig(config, serviceId, enabled),
               toggleCascade(cat, config, serviceId, enabled), enabled)

\* autoEnabledServices / autoDisabledServices: the walked services whose flag
\* was the opposite before the toggle
autoToggledServices(cat, config, serviceId, enabled) ==
    Filter(toggleCascade(cat, config, serviceId, enabled),
           {id \in Range(toggleCascade(cat, config, serviceId, enabled)) :
               getServiceEnabled(config, id) # enabled})

toggleMessage(serviceId, enabled, autoToggled) ==
    [text |-> IF enabled THEN "Enabled and its dependencies"
              ELSE "Disabled and services that depend on it",
     serviceId |-> serviceId, services |-> autoToggled]

handleServiceToggle(serviceId, enabled) ==
    /\ customServices # None
    /\ customServices' = toggledConfig(Definitions, customServices, serviceId, enabled)
    /\ LET autoToggled == autoToggledServices(Definitions, customServices, serviceId, enabled)
       IN  saveMessage' = IF autoToggled # <<>>
                          THEN toggleMessage(serviceId, enabled, autoToggled)
                          ELSE saveMessage
    /\ UNCHANGED <<catalog, selectedProfile, selectedEnvironment, error, loading, request>>
    /\ UNCHANGED <<file, outputFile, monitoringVars, posts, lastSaved>>

\* setTimeout(() => setSaveMessage(null), ...)
saveMessageTimeout ==
    /\ saveMessage # None
    /\ saveMessage' = None
    /\ UNCHANGED <<catalog, customServices, selectedProfile, selectedEnvironment,
                   error, loading, request>>
    /\ UNCHANGED <<file, posts, lastToggle, lastSaved>>
    /\ UNCHANGED <<outputFile, monitoringVars>>

(***************************************************************************)
(* Bulk toggles.  selectAllStates, which they also set, is never read.     *)
(***************************************************************************)
selectAllCategoryConfig(config, category, enabled) ==
    [config EXCEPT !.services =
        [id \in DOMAIN config.services |->
            IF config.services[id].categoryId = category
            THEN [config.services[id] EXCEPT !.enabled = enabled]
            ELSE config.services[id]]]

selectAllGlobalConfig(config, enabled) ==
    [config EXCEPT !.services =
        [id \in DOMAIN config.services |->
            [config.services[id] EXCEPT !.enabled = enabled]]]

handleSelectAllCategory(category, enabled) ==
    /\ customServices # None
    /\ customServices' = selectAllCategoryConfig(customServices, category, enabled)
    /\ UNCHANGED <<catalog, selectedProfile, selectedEnvironment, saveMessage,
                   error, loading, request>>
    /\ UNCHANGED <<file, posts, lastToggle, lastSaved>>
    /\ UNCHANGED <<outputFile, monitoringVars>>

handleSelectAllGlobal(enabled) ==
    /\ customServices # None
    /\ customServices' = selectAllGlobalConfig(customServices, enabled)
    /\ UNCHANGED <<catalog, selectedProfile, selectedEnvironment, saveMessage,
                   error, loading, request>>
    /\ UNCHANGED <<file, posts, lastToggle, lastSaved>>
    /\ UNCHANGED <<outputFile, monitoringVars>>

\* the profile and environment selects, rendered once a configuration is loaded
setSelectedProfile(profile) ==
    /\ customServices # None
    /\ selectedProfile' = profile
    /\ UNCHANGED <<catalog, customServices, selectedEnvironment, saveMessage,
                   error, loading, request>>
    /\ UNCHANGED <<file, posts, lastToggle, lastSaved>>
    /\ UNCHANGED <<outputFile, monitoringVars>>

setSelectedEnvironment(environment) ==
    /\ customServices # None
    /\ selectedEnvironment' = environment
    /\ UNCHANGED <<catalog, customServices, selectedProfile, saveMessage,
                   error, loading, request>>
    /\ UNCHANGED <<file, posts, lastToggle, lastSaved>>
    /\ UNCHANGED <<outputFile, monitoringVars>>

(***************************************************************************)
(* loadServicesConfiguration, on mount, with the backend's answer.         *)
(***************************************************************************)
\* savedProfile || defaultProfile
savedOrDefault(saved, default) == IF saved = Undefined THEN default ELSE saved

loadServicesConfiguration(serviceState) ==
    /\ customServices = None
    /\ error = None
    /\ LET mergedConfig == mergeServiceDefinitionsWithState(Definitions, serviceState)
       IN  /\ customServices' = mergedConfig
           /\ selectedProfile' =
                 savedOrDefault(mergedConfig.userPreferences.selectedProfile, defaultProfile)
           /\ selectedEnvironment' =
                 savedOrDefault(mergedConfig.userPreferences.selectedEnvironment,
                                defaultEnvironment)
    /\ UNCHANGED <<catalog, saveMessage, error, loading, request>>
    /\ UNCHANGED <<file, outputFile, monitoringVars, posts, lastToggle>>

(***************************************************************************)
(* getEnabledServices and resolveDependencies (utils/serviceOrchestration) *)
(***************************************************************************)
\* no profile substitution
actualServiceId_logicalId(config, serviceId, profile) == serviceId

\* config.profiles?.[profile] || serviceId
actualServiceId(config, serviceId, profile) ==
    IF /\ profile \in DOMAIN config.services[serviceId].profiles
       /\ config.services[serviceId].profiles[profile] # ""
    THEN config.services[serviceId].profiles[profile]
    ELSE serviceId

\* config.pull_services?.[profile] is truthy
hasPullService(config, serviceId, profile) ==
    /\ profile \in DOMAIN config.services[serviceId].pull_services
    /\ config.services[serviceId].pull_services[profile] # ""

\* the pull service left out
pushedFor_withoutPull(config, serviceId, profile) ==
    <<actualServiceId(config, serviceId, profile)>>

\* what one enabled service pushes
pushedFor(config, serviceId, profile) ==
    <<actualServiceId(config, serviceId, profile)>> \o
    (IF hasPullService(config, serviceId, profile)
     THEN <<config.services[serviceId].pull_services[profile]>>
     ELSE <<>>)

RECURSIVE enabledServicesOver(_, _, _)
enabledServicesOver(config, ids, profile) ==
    IF ids = <<>> THEN <<>>
    ELSE (IF config.services[Head(ids)].enabled
          THEN pushedFor(config, Head(ids), profile)
          ELSE <<>>) \o enabledServicesOver(config, Tail(ids), profile)

getEnabledServices(cat, config, profile) == enabledServicesOver(config, cat.order, profile)

\* resolveDependency with the two shared sets; resolved keeps insertion order
RECURSIVE resolveDependency(_, _, _)
RECURSIVE resolveEach(_, _, _)
resolveDependency(config, serviceId, st) ==
    IF serviceId \in st.visited THEN st
    ELSE LET entered == [st EXCEPT !.visited = @ \cup {serviceId}]
         IN  IF serviceId \notin DOMAIN config.services THEN entered
             ELSE LET after == resolveEach(config, config.services[serviceId].dependencies,
                                           entered)
                  IN  IF config.services[serviceId].enabled
                      THEN [after EXCEPT !.resolved = PushNew(@, <<serviceId>>)]
                      ELSE after

resolveEach(config, ids, st) ==
    IF ids = <<>> THEN st
    ELSE resolveEach(config, Tail(ids), resolveDependency(config, Head(ids), st))

resolveDependencies(config, requestedServices) ==
    resolveEach(config, requestedServices, [resolved |-> <<>>, visited |-> {}]).resolved

(***************************************************************************)
(* Start / stop: the request sent to the backend and its completion.  The  *)
(* three buttons are disabled while loading.                               *)
(***************************************************************************)
\* the serviceIds handleStartServices passes to startServices
startServiceIds(cat, config, profile) ==
    resolveDependencies(config, getEnabledServices(cat, config, profile))

\* the serviceIds handleStopServices passes to stopServices
stopServiceIds(cat, config, profile) == getEnabledServices(cat, config, profile)

handleStartServices ==
    /\ customServices # None
    /\ ~loading
    /\ loading' = TRUE
    /\ request' = [kind |-> "start",
                   serviceIds |-> startServiceIds(Definitions, customServices, selectedProfile),
                   profile |-> selectedProfile,
                   environment |-> selectedEnvironment]
    /\ UNCHANGED <<catalog, customServices, selectedProfile, selectedEnvironment,
                   saveMessage, error>>
    /\ UNCHANGED <<file, posts, lastToggle, lastSaved>>
    /\ UNCHANGED <<outputFile, monitoringVars>>

handleStopServices ==
    /\ customServices # None
    /\ ~loading
    /\ loading' = TRUE
    /\ request' = [kind |-> "stop",
                   serviceIds |-> stopServiceIds(Definitions, customServices, selectedProfile),
                   profile |-> Undefined,
                   environment |-> Undefined]
    /\ UNCHANGED <<catalog, customServices, selectedProfile, selectedEnvironment,
                   saveMessage, error>>
    /\ UNCHANGED <<file, posts, lastToggle, lastSaved>>
    /\ UNCHANGED <<outputFile, monitoringVars>>

\* the awaited request resolves: success message, or the catch branch
lifecycleResponse(ok) ==
    /\ request # None
    /\ request.kind \in {"start", "stop"}
    /\ request' = None
    /\ loading' = FALSE
    /\ IF ok
       THEN /\ saveMessage' = [text |-> "Services request sent!",
                               serviceId |-> request.kind, services |-> <<>>]
            /\ error' = error
       ELSE /\ error' = [text |-> "Failed to " \o request.kind \o " services"]
            /\ saveMessage' = saveMessage
    /\ UNCHANGED <<catalog, customServices, selectedProfile, selectedEnvironment>>
    /\ UNCHANGED <<file, posts, lastToggle, lastSaved>>
    /\ UNCHANGED <<outputFile, monitoringVars>>

\* the error banner's dismiss button
dismissError ==
    /\ customServices # None
    /\ error # None
    /\ error' = None
    /\ UNCHANGED <<catalog, customServices, selectedProfile, selectedEnvironment,
                   saveMessage, loading, request>>
    /\ UNCHANGED <<file, posts, lastToggle, lastSaved>>
    /\ UNCHANGED <<outputFile, monitoringVars>>

(***************************************************************************)
(* The Docker monitoring side as construction leaves it: the backend's     *)
(* DockerClientWrapper and the MonitoringDashboard's useState.             *)
(***************************************************************************)
MaxApiRequests == 2
ApiSlots == 1..MaxApiRequests

ContainerIds == {"c1", "c2"}

\* constructor: this.docker is a client or null (docker = FALSE), and
\* this.connected = this.docker !== null
DockerClientWrapper(docker) == [docker |-> docker, connected |-> docker]

\* useState<MonitoringState>: no containers, no stats, loading
InitialMonitoringState ==
    [containers     |-> <<>>,
     containerStats |-> [id \in ContainerIds |-> None],
     loading        |-> TRUE,
     error          |-> None,
     autoRefresh    |-> TRUE]

\* no request at the backend, no fetch by the dashboard
MonitoringIdle ==
    /\ dockerClient = DockerClientWrapper(TRUE)
    /\ apiRequests = [slot \in ApiSlots |-> None]
    /\ lastPing = "none"
    /\ monitoring = InitialMonitoringState
    /\ statsRequests = {}

(***************************************************************************)
(* Specifications.  Spec, SpecToggles and SpecLifecycle take the backend's  *)
(* answer to the load as an input and never save: the store stays as Init  *)
(* leaves it.                                                              *)
(***************************************************************************)
Init ==
    /\ catalog \in CatalogNames
    /\ customServices = None
    /\ selectedProfile = "cpu"
    /\ selectedEnvironment = "private"
    /\ saveMessage = None
    /\ error = None
    /\ loading = FALSE
    /\ request = None
    /\ file = None
    /\ outputFile = None
    /\ MonitoringIdle
    /\ posts = NoPosts
    /\ lastToggle = None
    /\ lastSaved = None

Load ==
    \E serviceState \in ServiceStates(Definitions) :
        loadServicesConfiguration(serviceState) /\ UNCHANGED lastSaved

Toggle == \E serviceId \in ServiceIdsOf(Definitions), enabled \in BOOLEAN :
              handleServiceToggle(serviceId, enabled) /\ UNCHANGED lastToggle

SelectAllCategory == \E category \in CategoriesOf(Definitions), enabled \in BOOLEAN :
                         handleSelectAllCategory(category, enabled)

SelectAllGlobal == \E enabled \in BOOLEAN : handleSelectAllGlobal(enabled)

SelectProfile == \E profile \in ProfileNames : setSelectedProfile(profile)

SelectEnvironment == \E environment \in EnvironmentNames : setSelectedEnvironment(environment)

LifecycleResponse == \E ok \in BOOLEAN : lifecycleResponse(ok)

\* the configuration editor
Next ==
    \/ Load
    \/ Toggle
    \/ SelectAllCategory
    \/ SelectAllGlobal
    \/ SelectProfile
    \/ SelectEnvironment
    \/ saveMessageTimeout

Spec == Init /\ [][Next]_vars

\* single-service toggles only, from the configuration merged out of an
\* empty preference state (no service enabled)
EmptyServiceState ==
    [services |-> [k \in {} |-> FALSE],
     userPreferences |-> [selectedProfile |-> Undefined, selectedEnvironment |-> Undefined]]

InitToggles ==
    /\ catalog \in CatalogNames
    /\ customServices = mergeServiceDefinitionsWithState(Definitions, EmptyServiceState)
    /\ selectedProfile = defaultProfile
    /\ selectedEnvironment = defaultEnvironment
    /\ saveMessage = None
    /\ error = None
    /\ loading = FALSE
    /\ request = None
    /\ file = None
    /\ outputFile = None
    /\ MonitoringIdle
    /\ posts = NoPosts
    /\ lastToggle = None
    /\ lastSaved = None

NextToggles ==
    \/ Toggle
    \/ saveMessageTimeout

SpecToggles == InitToggles /\ [][NextToggles]_vars

\* loading a stored configuration, choosing the profile, starting and stopping
NextLifecycle ==
    \/ Load
    \/ SelectProfile
    \/ handleStartServices
    \/ handleStopServices
    \/ LifecycleResponse
    \/ dismissError
    \/ saveMessageTimeout

SpecLifecycle == Init /\ [][NextLifecycle]_vars

(***************************************************************************)
(* The dependency graph, as the properties speak of it.                    *)
(***************************************************************************)
Enabled(config) == {id \in DOMAIN config.services : config.services[id].enabled}

DirectDependencies(config, id) ==
    Range(config.services[id].dependencies) \cap DOMAIN config.services

RECURSIVE ReachableFrom(_, _, _)
ReachableFrom(config, frontier, seen) ==
    IF frontier = {} THEN seen
    ELSE LET next == UNION {DirectDependencies(config, id) : id \in frontier}
         IN  ReachableFrom(config, next \ seen, seen \cup next)

\* every service reachable from id along one or more dependency edges
TransitiveDependencies(config, id) ==
    ReachableFrom(config, DirectDependencies(config, id), DirectDependencies(config, id))

\* every service from which id is reachable along dependency edges
TransitiveDependents(config, id) ==
    {t \in DOMAIN config.services : id \in TransitiveDependencies(config, t)}

ForwardClosed(config) ==
    \A id \in Enabled(config) : TransitiveDependencies(config, id) \subseteq Enabled(config)

\* every service whose own dependency list includes id
DirectDependents(config, id) ==
    {t \in DOMAIN config.services : Includes(config.services[t].dependencies, id)}

(***************************************************************************)
(* Single-service toggles under observation: lastToggle records the        *)
(* service toggled, the direction, the enabled services before the toggle  *)
(* and, for a disable that directly follows an enable of the same service, *)
(* the enabled services before that enable.  The toggles include ids that  *)
(* are not services of the configuration: the backend's default            *)
(* configuration lists localai-ui, which the catalog does not, and         *)
(* ollama-cpu is a profile variant, not a service.                         *)
(***************************************************************************)
UnknownServiceIds == {"localai-ui", "ollama-cpu"}

toggleRecord(serviceId, enabled) ==
    [serviceId |-> serviceId,
     enabled |-> enabled,
     before |-> Enabled(customServices),
     roundTrip |-> IF /\ ~enabled
                      /\ lastToggle # None
                      /\ lastToggle.enabled
                      /\ lastToggle.serviceId = serviceId
                   THEN [from |-> lastToggle.before]
                   ELSE None]

ToggleObserved ==
    \E serviceId \in ServiceIdsOf(Definitions) \cup UnknownServiceIds, enabled \in BOOLEAN :
        /\ handleServiceToggle(serviceId, enabled)
        /\ lastToggle' = toggleRecord(serviceId, enabled)

NextRoundTrip ==
    \/ Load
    \/ ToggleObserved
    \/ saveMessageTimeout

SpecRoundTrip == Init /\ [][NextRoundTrip]_vars

\* enables only: for an enable that directly follows an enable, lastToggle
\* also records the first enable's service and the enabled services before it
enableRecord(serviceId) ==
    [serviceId |-> serviceId,
     enabled |-> TRUE,
     before |-> Enabled(customServices),
     second |-> IF lastToggle # None
                THEN [first |-> lastToggle.serviceId, from |-> lastToggle.before]
                ELSE None]

EnableObserved ==
    \E serviceId \in ServiceIdsOf(Definitions) \cup UnknownServiceIds :
        /\ handleServiceToggle(serviceId, TRUE)
        /\ lastToggle' = enableRecord(serviceId)

NextEnables ==
    \/ Load
    \/ EnableObserved
    \/ saveMessageTimeout

SpecEnables == Init /\ [][NextEnables]_vars

(***************************************************************************)
(* The preference file as text.  JSON.stringify writes the services in     *)
(* the object's key order, each under its category with its enabled flag,  *)
(* then the userPreferences that are defined; true takes four characters   *)
(* and false five, so texts differ in length.  A text is a sequence of     *)
(* tokens: the braces, the keys and names, and the characters of the       *)
(* flags.  JSON.parse rejects a text that is cut short or runs on after    *)
(* its closing brace.                                                      *)
(***************************************************************************)
FlagText(enabled) ==
    IF enabled THEN <<"t", "r", "u", "e">> ELSE <<"f", "a", "l", "s", "e">>

\* what a configuration of the component holds for the store: the enabled
\* flag of each service under its category, and the userPreferences
storedForm(config) ==
    [services |->
        [k \in {<<config.services[id].categoryId, id>> : id \in DOMAIN config.services} |->
            config.services[k[2]].enabled],
     userPreferences |-> config.userPreferences]

RECURSIVE entriesText(_, _, _)
entriesText(cat, services, ids) ==
    IF ids = <<>> THEN <<>>
    ELSE LET key == <<cat.defs[Head(ids)].categoryId, Head(ids)>>
         IN  <<key[1], key[2]>> \o FlagText(services[key])
                \o entriesText(cat, services, Tail(ids))

\* an undefined property is left out
preferencesText(userPreferences) ==
    (IF userPreferences.selectedProfile = Undefined THEN <<>>
     ELSE <<"selectedProfile", userPreferences.selectedProfile>>) \o
    (IF userPreferences.selectedEnvironment = Undefined THEN <<>>
     ELSE <<"selectedEnvironment", userPreferences.selectedEnvironment>>)

stringify(cat, serviceState) ==
    <<"{">> \o
    entriesText(cat, serviceState.services,
                Filter(cat.order,
                       {id \in ServiceIdsOf(cat) :
                           <<cat.defs[id].categoryId, id>> \in DOMAIN serviceState.services})) \o
    preferencesText(serviceState.userPreferences) \o
    <<"}">>

ParseError == [ok |-> FALSE, body |-> None]

StructuralTokens == {"{", "}", "selectedProfile", "selectedEnvironment"}

parseFlag(text, i) ==
    IF i + 3 <= Len(text) /\ SubSeq(text, i, i + 3) = FlagText(TRUE)
    THEN [ok |-> TRUE, value |-> TRUE, next |-> i + 4]
    ELSE IF i + 4 <= Len(text) /\ SubSeq(text, i, i + 4) = FlagText(FALSE)
    THEN [ok |-> TRUE, value |-> FALSE, next |-> i + 5]
    ELSE [ok |-> FALSE, value |-> FALSE, next |-> i]

RECURSIVE parseMembers(_, _, _)
parseMembers(text, i, parsed) ==
    IF i > Len(text) THEN ParseError
    ELSE IF text[i] = "}"
    THEN IF i = Len(text) THEN [ok |-> TRUE, body |-> parsed] ELSE ParseError
    ELSE IF text[i] \in {"selectedProfile", "selectedEnvironment"}
    THEN IF i + 1 <= Len(text) /\ text[i + 1] \notin StructuralTokens
         THEN parseMembers(text, i + 2,
                           [parsed EXCEPT !.userPreferences[text[i]] = text[i + 1]])
         ELSE ParseError
    ELSE IF i + 1 <= Len(text) /\ parseFlag(text, i + 2).ok
    THEN parseMembers(text, parseFlag(text, i + 2).next,
                      [parsed EXCEPT !.services =
                          (<<text[i], text[i + 1]>> :> parseFlag(text, i + 2).value) @@ @])
    ELSE ParseError

parse(text) ==
    IF text # <<>> /\ text[1] = "{"
    THEN parseMembers(text, 2,
                      [services |-> [k \in {} |-> FALSE],
                       userPreferences |-> [selectedProfile |-> Undefined,
                                            selectedEnvironment |-> Undefined]])
    ELSE ParseError

(***************************************************************************)
(* GET /api/custom-services.                                               *)
(***************************************************************************)
\* the services of the default configuration, all with enabled: false
DefaultConfigKeys ==
    {<<"core", "localai-ui">>, <<"core", "caddy">>,
     <<"ai_platforms", "n8n">>, <<"ai_platforms", "n8n-import">>,
     <<"ai_platforms", "open-webui">>, <<"ai_platforms", "flowise">>,
     <<"llm_services", "ollama">>,
     <<"databases", "supabase">>, <<"databases", "qdrant">>, <<"databases", "neo4j">>,
     <<"databases", "postgres">>, <<"databases", "clickhouse">>, <<"databases", "redis">>,
     <<"monitoring", "langfuse-web">>, <<"monitoring", "langfuse-worker">>,
     <<"utilities", "searxng">>, <<"utilities", "minio">>}

defaultConfig ==
    [services |-> [k \in DefaultConfigKeys |-> FALSE],
     userPreferences |-> [selectedProfile |-> Undefined, selectedEnvironment |-> Undefined]]

\* access(F_OK | R_OK) succeeds
checkFileAccess(f) == f # None /\ f.readable

\* the answer: the default configuration if the file is absent or not
\* readable, the parsed file, or status 500 if it does not parse
getCustomServicesResponse(f) ==
    IF ~checkFileAccess(f) THEN [ok |-> TRUE, body |-> defaultConfig]
    ELSE parse(f.text)

(***************************************************************************)
(* Loading from the store.  The file is what an earlier session, another   *)
(* tool or an editor left: absent, unreadable, cut short, or a complete    *)
(* text, whose preferences are free strings (selectedProfile?: string).    *)
(***************************************************************************)
FilePreferences ==
    StoredPreferences \cup {[selectedProfile |-> "gpu", selectedEnvironment |-> "production"]}

FileStates(cat) ==
    {[services |-> f, userPreferences |-> up] :
        f \in StoredServices(cat), up \in FilePreferences}

BrokenTexts == {<<>>, <<"{">>}

InitialFiles(cat) ==
    {None} \cup
    {[text |-> t, readable |-> r] :
        t \in BrokenTexts \cup {stringify(cat, st) : st \in FileStates(cat)},
        r \in BOOLEAN}

\* the mount effect with the backend's answer to GET /api/custom-services
LoadStored ==
    /\ getCustomServicesResponse(file).ok
    /\ loadServicesConfiguration(getCustomServicesResponse(file).body)
    /\ lastSaved' = IF lastSaved # None /\ lastSaved.state = "stored"
                    THEN [lastSaved EXCEPT !.state = "restored"]
                    ELSE lastSaved

\* the catch branch of loadServicesConfiguration: customServices stays null
loadServicesConfigurationFailed(cause) ==
    /\ customServices = None
    /\ error = None
    /\ error' = [text |-> "Failed to load services configuration", cause |-> cause]
    /\ UNCHANGED <<catalog, customServices, selectedProfile, selectedEnvironment,
                   saveMessage, loading, request>>
    /\ UNCHANGED <<file, posts, lastToggle, lastSaved>>
    /\ UNCHANGED <<outputFile, monitoringVars>>

\* fetch rejects, or the backend answers 500
LoadFailed ==
    \E cause \in {"request error", "status 500"} :
        /\ cause = "status 500" => ~getCustomServicesResponse(file).ok
        /\ loadServicesConfigurationFailed(cause)

\* the page is loaded anew: the component mounts with its initial state
reload ==
    /\ customServices # None \/ error # None
    /\ request = None
    /\ customServices' = None
    /\ selectedProfile' = "cpu"
    /\ selectedEnvironment' = "private"
    /\ saveMessage' = None
    /\ error' = None
    /\ loading' = FALSE
    /\ UNCHANGED <<catalog, request, file, posts, lastToggle, lastSaved>>
    /\ UNCHANGED <<outputFile, monitoringVars>>

InitLoad ==
    /\ catalog \in CatalogNames
    /\ customServices = None
    /\ selectedProfile = "cpu"
    /\ selectedEnvironment = "private"
    /\ saveMessage = None
    /\ error = None
    /\ loading = FALSE
    /\ request = None
    /\ file \in InitialFiles(Definitions)
    /\ outputFile = None
    /\ MonitoringIdle
    /\ posts = NoPosts
    /\ lastToggle = None
    /\ lastSaved = None

NextLoad ==
    \/ LoadStored
    \/ LoadFailed
    \/ SelectProfile
    \/ SelectEnvironment
    \/ reload

SpecLoad == InitLoad /\ [][NextLoad]_vars

(***************************************************************************)
(* Loading what an earlier build saved.  Save Configuration posts the      *)
(* whole merged configuration, so a stored entry carries, next to its      *)
(* enabled flag, the dependencies and the required flag of the build that  *)
(* wrote it; the file may also hold entries the present catalog does not   *)
(* know: an id it does not define (the backend's default configuration     *)
(* lists localai-ui), or one of its ids filed under another category.      *)
(* serviceState.storedDefinitions holds the stored dependencies and        *)
(* required flags, by id.  lastSaved records what the earlier build saved. *)
(***************************************************************************)
ForeignKeys(cat) == {<<"core", "localai-ui">>, <<"utilities", cat.order[1]>>}

EarlierServices(cat) ==
    {f @@ [k \in K |-> TRUE] : f \in StoredServices(cat), K \in SUBSET ForeignKeys(cat)}

EarlierServiceStates(cat) ==
    {[services |-> f, userPreferences |-> up, storedDefinitions |-> CatalogOf(n).defs] :
        f \in EarlierServices(cat), up \in StoredPreferences, n \in CatalogNames}

LoadEarlier ==
    /\ loadServicesConfiguration(lastSaved.serviceState)
    /\ UNCHANGED lastSaved

InitMerge ==
    /\ catalog \in CatalogNames
    /\ customServices = None
    /\ selectedProfile = "cpu"
    /\ selectedEnvironment = "private"
    /\ saveMessage = None
    /\ error = None
    /\ loading = FALSE
    /\ request = None
    /\ file = None
    /\ outputFile = None
    /\ MonitoringIdle
    /\ posts = NoPosts
    /\ lastToggle = None
    /\ lastSaved \in {[state |-> "earlier build", serviceState |-> st] :
                        st \in EarlierServiceStates(Definitions)}

NextMerge ==
    \/ LoadEarlier
    \/ reload

SpecMerge == InitMerge /\ [][NextMerge]_vars

(***************************************************************************)
(* The whole shipped catalog, from a first run (no preference file: the    *)
(* backend answers with its default configuration), and the operator's     *)
(* first MaxCatalogEnables enables; lastToggle counts them.                *)
(***************************************************************************)
MaxCatalogEnables == 2

enablesSoFar == IF lastToggle = None THEN 0 ELSE lastToggle.count

CatalogEnable ==
    \E serviceId \in ServiceIdsOf(Definitions) :
        /\ enablesSoFar < MaxCatalogEnables
        /\ handleServiceToggle(serviceId, TRUE)
        /\ lastToggle' = [serviceId |-> serviceId,
                          enabled |-> TRUE,
                          before |-> Enabled(customServices),
                          count |-> enablesSoFar + 1]

InitCatalog ==
    /\ catalog = "shipped"
    /\ customServices = None
    /\ selectedProfile = "cpu"
    /\ selectedEnvironment = "private"
    /\ saveMessage = None
    /\ error = None
    /\ loading = FALSE
    /\ request = None
    /\ file = None
    /\ outputFile = None
    /\ MonitoringIdle
    /\ posts = NoPosts
    /\ lastToggle = None
    /\ lastSaved = None

NextCatalog ==
    \/ LoadStored
    \/ CatalogEnable
    \/ saveMessageTimeout

SpecCatalog == InitCatalog /\ [][NextCatalog]_vars

(***************************************************************************)
(* Authored catalogs, from a first run: the operator's first enables.      *)
(***************************************************************************)
InitAuthored ==
    /\ catalog \in AuthoredCatalogNames
    /\ customServices = None
    /\ selectedProfile = "cpu"
    /\ selectedEnvironment = "private"
    /\ saveMessage = None
    /\ error = None
    /\ loading = FALSE
    /\ request = None
    /\ file = None
    /\ outputFile = None
    /\ MonitoringIdle
    /\ posts = NoPosts
    /\ lastToggle = None
    /\ lastSaved = None

NextAuthored ==
    \/ LoadStored
    \/ CatalogEnable
    \/ saveMessageTimeout

SpecAuthored == InitAuthored /\ [][NextAuthored]_vars

(***************************************************************************)
(* POST /api/custom-services, one request per session.  The handler writes *)
(* output/custom_services.json, which nothing reads back, and then the     *)
(* shared file; writeFile opens the file, which empties it, and then       *)
(* writes the text from the start, and another request's steps can run     *)
(* between the two.  Any of the file operations can fail (status 500).     *)
(* The output file is kept as the session whose request wrote it last (a   *)
(* write there is taken as one step); its text is that request's text.     *)
(***************************************************************************)
\* a write of text at the start of a file that holds old
overwrite(old, text) ==
    text \o (IF Len(old) > Len(text) THEN SubSeq(old, Len(text) + 1, Len(old)) ELSE <<>>)

postAt(session, pc) == posts[session] # None /\ posts[session].pc = pc

\* ensureDirectoryExists(outputPath); writeFile(outputPath, ...)
writeOutput(session, ok) ==
    /\ postAt(session, "output")
    /\ posts' = [posts EXCEPT ![session].pc = IF ok THEN "open" ELSE "failed"]
    /\ outputFile' = IF ok THEN [writer |-> session] ELSE outputFile
    /\ UNCHANGED <<catalog, customServices, selectedProfile, selectedEnvironment,
                   saveMessage, error, loading, request, file, lastToggle, lastSaved>>
    /\ UNCHANGED monitoringVars

\* the file opened without emptying it
openShared_noTruncate(session, ok) ==
    /\ postAt(session, "open")
    /\ posts' = [posts EXCEPT ![session].pc = IF ok THEN "write" ELSE "failed"]
    /\ file' = IF ~ok \/ file # None THEN file ELSE [text |-> <<>>, readable |-> TRUE]
    /\ UNCHANGED <<catalog, customServices, selectedProfile, selectedEnvironment,
                   saveMessage, error, loading, request, lastToggle, lastSaved>>
    /\ UNCHANGED <<outputFile, monitoringVars>>

\* ensureDirectoryExists(sharedPath); writeFile(sharedPath, ...): open
openShared(session, ok) ==
    /\ postAt(session, "open")
    /\ posts' = [posts EXCEPT ![session].pc = IF ok THEN "write" ELSE "failed"]
    /\ file' = IF ~ok THEN file
               ELSE [text |-> <<>>, readable |-> IF file = None THEN TRUE ELSE file.readable]
    /\ UNCHANGED <<catalog, customServices, selectedProfile, selectedEnvironment,
                   saveMessage, error, loading, request, lastToggle, lastSaved>>
    /\ UNCHANGED <<outputFile, monitoringVars>>

\* writeFile(sharedPath, ...): write, after which the handler answers
writeShared(session, ok) ==
    /\ postAt(session, "write")
    /\ posts' = [posts EXCEPT ![session].pc = IF ok THEN "done" ELSE "failed"]
    /\ file' = IF ~ok THEN file
               ELSE [file EXCEPT !.text = overwrite(@, posts[session].text)]
    /\ UNCHANGED <<catalog, customServices, selectedProfile, selectedEnvironment,
                   saveMessage, error, loading, request, lastToggle, lastSaved>>
    /\ UNCHANGED <<outputFile, monitoringVars>>

(***************************************************************************)
(* handleSaveConfiguration and its completion.  The toggles and the        *)
(* selects stay usable while the request is awaited; the three buttons do  *)
(* not.                                                                    *)
(***************************************************************************)
\* { ...customServices, userPreferences: { selectedProfile, selectedEnvironment } }
updatedConfig ==
    [customServices EXCEPT !.userPreferences =
        [selectedProfile |-> selectedProfile, selectedEnvironment |-> selectedEnvironment]]

handleSaveConfiguration ==
    /\ customServices # None
    /\ ~loading
    /\ posts["ui"] = None
    /\ loading' = TRUE
    /\ request' = [kind |-> "save", config |-> updatedConfig]
    /\ posts' = [posts EXCEPT !["ui"] =
                    [text |-> stringify(Definitions, storedForm(updatedConfig)),
                     pc |-> "output"]]
    /\ UNCHANGED <<catalog, customServices, selectedProfile, selectedEnvironment,
                   saveMessage, error, file, lastToggle>>
    /\ UNCHANGED <<outputFile, monitoringVars>>

savedMessage ==
    [text |-> "Configuration saved successfully!", serviceId |-> "", services |-> <<>>]

\* the catch branch keeping the attempted configuration and reporting success
saveFailure_asSuccess ==
    /\ customServices' = request.config
    /\ saveMessage' = savedMessage
    /\ error' = error

\* the try branch leaving the configuration on screen as it is
saveSuccess_keepsEdits ==
    /\ customServices' = customServices
    /\ saveMessage' = savedMessage
    /\ error' = error

\* the try branch after the await
saveSuccess ==
    /\ customServices' = request.config
    /\ saveMessage' = savedMessage
    /\ error' = error

\* the catch branch
saveFailure ==
    /\ error' = [text |-> "Failed to save configuration", cause |-> "status 500"]
    /\ customServices' = customServices
    /\ saveMessage' = saveMessage

\* the awaited updateCustomServices settles
saveConfigurationResponse ==
    /\ request # None
    /\ request.kind = "save"
    /\ postAt("ui", "done") \/ postAt("ui", "failed")
    /\ IF postAt("ui", "done") THEN saveSuccess ELSE saveFailure
    /\ loading' = FALSE
    /\ request' = None
    /\ posts' = [posts EXCEPT !["ui"] = None]
    /\ UNCHANGED <<catalog, selectedProfile, selectedEnvironment, file, lastToggle>>
    /\ UNCHANGED <<outputFile, monitoringVars>>

(***************************************************************************)
(* One operator editing and saving.  lastSaved records what the operator   *)
(* had on screen when pressing Save Configuration, whether that save has   *)
(* succeeded since (stored) and whether a load has read it (restored).     *)
(***************************************************************************)
SaveConfiguration ==
    /\ handleSaveConfiguration
    /\ lastSaved' = [profile |-> selectedProfile,
                     environment |-> selectedEnvironment,
                     enabled |-> Enabled(customServices),
                     state |-> "pending"]

SaveConfigurationResponse ==
    /\ saveConfigurationResponse
    /\ lastSaved' = IF postAt("ui", "done")
                    THEN [lastSaved EXCEPT !.state = "stored"]
                    ELSE None

\* the profiles the operator picks from in this specification: the first
\* MaxSelectableProfiles options of the select
MaxSelectableProfiles == 2

ProfileOrder == <<"cpu", "gpu-nvidia", "gpu-amd", "none">>

SelectableProfiles ==
    {ProfileOrder[i] : i \in 1..(IF MaxSelectableProfiles < Len(ProfileOrder)
                                  THEN MaxSelectableProfiles
                                  ELSE Len(ProfileOrder))}

SelectListedProfile == \E profile \in SelectableProfiles : setSelectedProfile(profile)

\* the handler's steps, for whichever request is being handled
WriteOutput == \E session \in Sessions, ok \in BOOLEAN : writeOutput(session, ok)
OpenShared == \E session \in Sessions, ok \in BOOLEAN : openShared(session, ok)
WriteShared == \E session \in Sessions, ok \in BOOLEAN : writeShared(session, ok)

InitSave ==
    /\ catalog \in StoreCatalogNames
    /\ customServices = None
    /\ selectedProfile = "cpu"
    /\ selectedEnvironment = "private"
    /\ saveMessage = None
    /\ error = None
    /\ loading = FALSE
    /\ request = None
    /\ file = None
    /\ outputFile = None
    /\ MonitoringIdle
    /\ posts = NoPosts
    /\ lastToggle = None
    /\ lastSaved = None

NextSave ==
    \/ LoadStored
    \/ LoadFailed
    \/ Toggle
    \/ SelectListedProfile
    \/ SelectEnvironment
    \/ SaveConfiguration
    \/ WriteOutput
    \/ OpenShared
    \/ WriteShared
    \/ SaveConfigurationResponse
    \/ reload
    \/ dismissError
    \/ saveMessageTimeout

SpecSave == InitSave /\ [][NextSave]_vars

(***************************************************************************)
(* Two operators saving.  The other operator's session posts what its own  *)
(* component would: every service of the catalog with a flag, and the      *)
(* default profile and environment.                                        *)
(***************************************************************************)
OtherConfigurations(cat) ==
    {[services |-> f,
      userPreferences |-> [selectedProfile |-> defaultProfile,
                           selectedEnvironment |-> defaultEnvironment]] :
        f \in [StoredKeys(cat) -> BOOLEAN]}

\* a POST /api/custom-services of the other session arrives
postFromOther(serviceState) ==
    /\ posts["other"] = None
    /\ posts' = [posts EXCEPT !["other"] =
                    [text |-> stringify(Definitions, serviceState), pc |-> "output"]]
    /\ UNCHANGED <<catalog, customServices, selectedProfile, selectedEnvironment,
                   saveMessage, error, loading, request, file, lastToggle, lastSaved>>
    /\ UNCHANGED <<outputFile, monitoringVars>>

\* the other session receives its answer
otherResponse ==
    /\ postAt("other", "done") \/ postAt("other", "failed")
    /\ posts' = [posts EXCEPT !["other"] = None]
    /\ UNCHANGED <<catalog, customServices, selectedProfile, selectedEnvironment,
                   saveMessage, error, loading, request, file, lastToggle, lastSaved>>
    /\ UNCHANGED <<outputFile, monitoringVars>>

PostFromOther ==
    \E serviceState \in OtherConfigurations(Definitions) : postFromOther(serviceState)

NextBackend ==
    \/ LoadStored
    \/ Toggle
    \/ SaveConfiguration
    \/ PostFromOther
    \/ WriteOutput
    \/ OpenShared
    \/ WriteShared
    \/ SaveConfigurationResponse
    \/ otherResponse

SpecBackend == InitSave /\ [][NextBackend]_vars

(***************************************************************************)
(* The Docker monitoring endpoints of the backend (server.js, "Docker      *)
(* Monitoring APIs") over the one DockerClientWrapper.  A handler runs     *)
(* from the request's arrival to its first await in one step; the ping of  *)
(* testConnection and the Docker operation of the client complete later,   *)
(* in any order among the requests being handled, and can fail.            *)
(***************************************************************************)
ValidActions == {"start", "stop", "restart", "pause", "unpause"}

\* what a client can put in the body's action: a valid one, another word,
\* or nothing
RequestedActions == ValidActions \cup {"remove", "kill", Undefined}

StatusEndpoints == {"docker/status", "status"}

\* isConnected()
isConnected == dockerClient.connected

\* the handler's test of the action, without any test
isValidAction_unchecked(action) == TRUE

\* ['start', 'stop', 'restart', 'pause', 'unpause'].includes(action)
isValidAction(action) == action \in ValidActions

\* toLowerCase() on the characters log lines are built of here
toLowerCaseChar(c) ==
    CASE c = "A" -> "a" [] c = "B" -> "b" [] c = "D" -> "d" [] c = "E" -> "e"
      [] c = "F" -> "f" [] c = "G" -> "g" [] c = "L" -> "l" [] c = "N" -> "n"
      [] c = "O" -> "o" [] c = "R" -> "r" [] c = "T" -> "t" [] c = "U" -> "u"
      [] c = "W" -> "w" [] c = "Y" -> "y" [] OTHER -> c

toLowerCase(message) == [i \in DOMAIN message |-> toLowerCaseChar(message[i])]

\* String.prototype.includes
includes(message, word) ==
    \E i \in 1..(Len(message) - Len(word) + 1) :
        SubSeq(message, i, i + Len(word) - 1) = word

\* detectLogLevel with the test for 'warn' before the test for 'error'
detectLogLevel_warnFirst(message) ==
    LET lowerMessage == toLowerCase(message)
    IN  IF includes(lowerMessage, <<"w", "a", "r", "n">>) THEN "warn"
        ELSE IF \/ includes(lowerMessage, <<"e", "r", "r", "o", "r">>)
                \/ includes(lowerMessage, <<"f", "a", "t", "a", "l">>)
             THEN "error"
        ELSE IF includes(lowerMessage, <<"d", "e", "b", "u", "g">>) THEN "debug"
        ELSE "info"

\* detectLogLevel(message)
detectLogLevel(message) ==
    LET lowerMessage == toLowerCase(message)
    IN  IF \/ includes(lowerMessage, <<"e", "r", "r", "o", "r">>)
           \/ includes(lowerMessage, <<"f", "a", "t", "a", "l">>)
        THEN "error"
        ELSE IF includes(lowerMessage, <<"w", "a", "r", "n">>) THEN "warn"
        ELSE IF includes(lowerMessage, <<"d", "e", "b", "u", "g">>) THEN "debug"
        ELSE "info"

\* parseLogs, on the messages of the lines (header and timestamp taken off)
parseLogs(messages) ==
    [i \in DOMAIN messages |->
        [level |-> detectLogLevel(messages[i]), message |-> messages[i]]]

\* a request as it arrives; connected is what isConnected() answers the
\* handler, called whether the handler has called an operation of the client
ApiRequest(endpoint, id, action) ==
    [endpoint |-> endpoint, id |-> id, action |-> action,
     connected |-> isConnected, pc |-> "received", status |-> 0,
     called |-> FALSE, body |-> None]

\* res.status(status).json(body)
answered(r, status, body) ==
    [r EXCEPT !.pc = "answered", !.status = status, !.body = body]

\* await dockerClient.testConnection(): without a client it answers false
\* at once, with one it awaits the ping
testConnection(r, whenFalse) ==
    IF ~dockerClient.docker THEN whenFalse ELSE [r EXCEPT !.pc = "ping"]

\* await dockerClient.<operation>(...): without a client the operation
\* throws at once (status 500), with one it awaits Docker
callClient(r) ==
    IF ~dockerClient.docker
    THEN answered([r EXCEPT !.called = TRUE], 500, None)
    ELSE [r EXCEPT !.pc = "docker", !.called = TRUE]

handled(slot, r) ==
    /\ apiRequests[slot] = None
    /\ apiRequests' = [apiRequests EXCEPT ![slot] = r]
    /\ UNCHANGED <<dockerClient, lastPing, monitoring, statsRequests>>
    /\ UNCHANGED editorVars

\* GET /api/docker/containers
containersRequest(slot) ==
    LET r == ApiRequest("containers", None, None)
    IN  handled(slot, IF ~isConnected
                      THEN testConnection(r, answered(r, 503, None))
                      ELSE callClient(r))

\* GET /api/docker/containers/:id/stats
statsRequest(slot, id) ==
    LET r == ApiRequest("stats", id, None)
    IN  handled(slot, IF ~isConnected THEN answered(r, 503, None) ELSE callClient(r))

\* GET /api/docker/containers/:id/logs
logsRequest(slot, id) ==
    LET r == ApiRequest("logs", id, None)
    IN  handled(slot, IF ~isConnected THEN answered(r, 503, None) ELSE callClient(r))

\* POST /api/docker/containers/:id/action
actionRequest(slot, id, action) ==
    LET r == ApiRequest("action", id, action)
    IN  handled(slot, IF ~isConnected THEN answered(r, 503, None)
                      ELSE IF ~isValidAction(action) THEN answered(r, 400, None)
                      ELSE callClient(r))

\* GET /api/docker/status and GET /api/status
statusRequest(slot, endpoint) ==
    LET r == ApiRequest(endpoint, None, None)
    IN  handled(slot, testConnection(r, answered(r, 200, [connected |-> FALSE])))

\* testConnection: this.docker.ping() resolves (ok) or rejects
pingCompletion(slot, ok) ==
    /\ apiRequests[slot] # None
    /\ apiRequests[slot].pc = "ping"
    /\ dockerClient' = [dockerClient EXCEPT !.connected = ok]
    /\ lastPing' = IF ok THEN "succeeded" ELSE "failed"
    /\ LET r == apiRequests[slot]
       IN  apiRequests' = [apiRequests EXCEPT ![slot] =
               IF r.endpoint \in StatusEndpoints
               THEN answered(r, 200, [connected |-> ok])
               ELSE IF ok THEN callClient(r) ELSE answered(r, 503, None)]
    /\ UNCHANGED <<monitoring, statsRequests>>
    /\ UNCHANGED editorVars

\* the Docker operation of the client resolves (ok) or rejects; messages
\* are the lines of container.logs for the logs endpoint
dockerCompletion(slot, ok, messages) ==
    /\ apiRequests[slot] # None
    /\ apiRequests[slot].pc = "docker"
    /\ LET r == apiRequests[slot]
       IN  apiRequests' = [apiRequests EXCEPT ![slot] =
               IF ~ok \/ (r.endpoint = "action" /\ r.action \notin ValidActions)
               THEN answered(r, 500, None)
               ELSE answered(r, 200, IF r.endpoint = "logs"
                                     THEN parseLogs(messages) ELSE None)]
    /\ UNCHANGED <<dockerClient, lastPing, monitoring, statsRequests>>
    /\ UNCHANGED editorVars

\* the answer leaves the backend
respond(slot) ==
    /\ apiRequests[slot] # None
    /\ apiRequests[slot].pc = "answered"
    /\ apiRequests' = [apiRequests EXCEPT ![slot] = None]
    /\ UNCHANGED <<dockerClient, lastPing, monitoring, statsRequests>>
    /\ UNCHANGED editorVars

\* the editor untouched
EditorIdle ==
    /\ catalog = "shipped"
    /\ customServices = None
    /\ selectedProfile = "cpu"
    /\ selectedEnvironment = "private"
    /\ saveMessage = None
    /\ error = None
    /\ loading = FALSE
    /\ request = None
    /\ file = None
    /\ outputFile = None
    /\ posts = NoPosts
    /\ lastToggle = None
    /\ lastSaved = None

\* one line of a container's log, as a sample
SampleLogs == {<<<<"r", "e", "a", "d", "y">>>>}

ContainersRequest == \E slot \in ApiSlots : containersRequest(slot)
StatsRequest == \E slot \in ApiSlots, id \in ContainerIds : statsRequest(slot, id)
LogsRequest == \E slot \in ApiSlots, id \in ContainerIds : logsRequest(slot, id)
ActionRequest ==
    \E slot \in ApiSlots, id \in ContainerIds, action \in RequestedActions :
        actionRequest(slot, id, action)
StatusRequest ==
    \E slot \in ApiSlots, endpoint \in StatusEndpoints : statusRequest(slot, endpoint)
PingCompletion == \E slot \in ApiSlots, ok \in BOOLEAN : pingCompletion(slot, ok)
DockerCompletion ==
    \E slot \in ApiSlots, ok \in BOOLEAN, messages \in SampleLogs :
        dockerCompletion(slot, ok, messages)
Respond == \E slot \in ApiSlots : respond(slot)

\* the backend starts with a client or, when none could be made, without
InitDocker ==
    /\ EditorIdle
    /\ dockerClient \in {DockerClientWrapper(TRUE), DockerClientWrapper(FALSE)}
    /\ apiRequests = [slot \in ApiSlots |-> None]
    /\ lastPing = "none"
    /\ monitoring = InitialMonitoringState
    /\ statsRequests = {}

NextDocker ==
    \/ ContainersRequest
    \/ StatsRequest
    \/ LogsRequest
    \/ ActionRequest
    \/ StatusRequest
    \/ PingCompletion
    \/ DockerCompletion
    \/ Respond

SpecDocker == InitDocker /\ [][NextDocker]_vars

(***************************************************************************)
(* Log lines.  The logs endpoint with the lines a container can have       *)
(* written: up to MaxLogWords words, in the spellings below, with a space  *)
(* between them.                                                           *)
(***************************************************************************)
MaxLogWords == 4

LogWords ==
    {<<"E", "r", "r", "o", "r">>, <<"F", "A", "T", "A", "L">>,
     <<"W", "a", "r", "n", "i", "n", "g">>, <<"d", "e", "B", "U", "G">>,
     <<"r", "e", "a", "d", "y">>, <<"w", "a", "r">>, <<"e", "r", "r">>}

RECURSIVE LogLines(_)
LogLines(n) ==
    IF n = 0 THEN {<<>>}
    ELSE LET shorter == LogLines(n - 1)
         IN  shorter \cup {IF line = <<>> THEN word ELSE line \o <<" ">> \o word :
                              line \in shorter, word \in LogWords}

LogMessages == LogLines(MaxLogWords)

LogsRequestFirst == \E id \in ContainerIds : logsRequest(1, id)

\* container.logs resolves with a line, or rejects
LogsOutput ==
    /\ apiRequests[1] # None
    /\ apiRequests[1].pc = "docker"
    /\ \E ok \in BOOLEAN, message \in LogMessages : dockerCompletion(1, ok, <<message>>)

NextLogs ==
    \/ LogsRequestFirst
    \/ LogsOutput
    \/ Respond

SpecLogs == InitDocker /\ [][NextLogs]_vars

(***************************************************************************)
(* MonitoringDashboard.  The backend's answers are inputs here.  A stats   *)
(* fetch is [containerId, sample, pc]: sent, then recorded or failed; the  *)
(* stats in an answer are those of the container the request named, as     *)
(* sampled for that request.  Every setState of the component is           *)
(* functional (prev => ...), so a step works on the state as it is then.   *)
(***************************************************************************)
MaxStatsSamples == 2

ContainerStatuses == {"running", "stopped"}

\* what GET /api/docker/containers can answer: no container, or the two
ContainerLists ==
    {<<>>} \cup {<<[id |-> "c1", status |-> s1], [id |-> "c2", status |-> s2]>> :
                    s1 \in ContainerStatuses, s2 \in ContainerStatuses}

DashboardActions == {"start", "stop", "restart"}

\* state.containers.filter(c => c.status === 'running'), their ids
runningContainers(containers) ==
    {containers[i].id : i \in {j \in DOMAIN containers : containers[j].status = "running"}}

fetchesOf(id) == {req \in statsRequests : req.containerId = id}

\* fetches can still be started for these containers
CanFetch(ids) == \A id \in ids : Cardinality(fetchesOf(id)) < MaxStatsSamples

\* runningContainers.forEach(container => fetchContainerStats(container.id))
startFetches(ids) ==
    statsRequests \cup {[containerId |-> id,
                         sample |-> Cardinality(fetchesOf(id)) + 1,
                         pc |-> "sent"] : id \in ids}

\* fetchContainers settles; the new containers array runs the stats effect
fetchContainers(ok, containers) ==
    IF ok
    THEN /\ CanFetch(runningContainers(containers))
         /\ monitoring' = [monitoring EXCEPT !.containers = containers,
                                             !.loading = FALSE,
                                             !.error = None]
         /\ statsRequests' = startFetches(runningContainers(containers))
    ELSE /\ monitoring' = [monitoring EXCEPT
                              !.error = [text |-> "Failed to fetch containers"],
                              !.loading = FALSE]
         /\ statsRequests' = statsRequests

fetchContainersSettled(ok, containers) ==
    /\ fetchContainers(ok, containers)
    /\ UNCHANGED <<dockerClient, apiRequests, lastPing>>
    /\ UNCHANGED editorVars

\* the stats effect's setInterval callback
statsInterval ==
    /\ monitoring.autoRefresh
    /\ runningContainers(monitoring.containers) # {}
    /\ CanFetch(runningContainers(monitoring.containers))
    /\ statsRequests' = startFetches(runningContainers(monitoring.containers))
    /\ UNCHANGED <<dockerClient, apiRequests, lastPing, monitoring>>
    /\ UNCHANGED editorVars

settled(req, pc) == (statsRequests \ {req}) \cup {[req EXCEPT !.pc = pc]}

\* fetchContainerStats with a failure shown in the error banner
statsResponse_reportsFailure(req, ok) ==
    /\ req.pc = "sent"
    /\ IF ok
       THEN /\ monitoring' = [monitoring EXCEPT !.containerStats[req.containerId] =
                                 [of |-> req.containerId, sample |-> req.sample]]
            /\ statsRequests' = settled(req, "recorded")
       ELSE /\ monitoring' = [monitoring EXCEPT
                                 !.error = [text |-> "Failed to fetch stats"]]
            /\ statsRequests' = settled(req, "failed")
    /\ UNCHANGED <<dockerClient, apiRequests, lastPing>>
    /\ UNCHANGED editorVars

\* fetchContainerStats: the answer arrives (ok) or the fetch fails
statsResponse(req, ok) ==
    /\ req.pc = "sent"
    /\ IF ok
       THEN /\ monitoring' = [monitoring EXCEPT !.containerStats[req.containerId] =
                                 [of |-> req.containerId, sample |-> req.sample]]
            /\ statsRequests' = settled(req, "recorded")
       ELSE /\ monitoring' = monitoring
            /\ statsRequests' = settled(req, "failed")
    /\ UNCHANGED <<dockerClient, apiRequests, lastPing>>
    /\ UNCHANGED editorVars

\* performContainerAction: the POST fails, or it succeeds and the handler
\* awaits fetchContainers, which settles as above
performContainerAction(containerId, action, ok) ==
    /\ monitoring' = IF ok THEN monitoring
                     ELSE [monitoring EXCEPT
                              !.error = [text |-> "Failed to " \o action \o " container"]]
    /\ UNCHANGED <<dockerClient, apiRequests, lastPing, statsRequests>>
    /\ UNCHANGED editorVars

\* toggleAutoRefresh; the stats effect runs again
toggleAutoRefresh ==
    /\ CanFetch(runningContainers(monitoring.containers))
    /\ monitoring' = [monitoring EXCEPT !.autoRefresh = ~@]
    /\ statsRequests' = startFetches(runningContainers(monitoring.containers))
    /\ UNCHANGED <<dockerClient, apiRequests, lastPing>>
    /\ UNCHANGED editorVars

\* manualRefresh, up to the fetch it starts
manualRefresh ==
    /\ monitoring' = [monitoring EXCEPT !.loading = TRUE]
    /\ UNCHANGED <<dockerClient, apiRequests, lastPing, statsRequests>>
    /\ UNCHANGED editorVars

FetchContainersSettled ==
    \E ok \in BOOLEAN, containers \in ContainerLists : fetchContainersSettled(ok, containers)
StatsResponse == \E req \in statsRequests, ok \in BOOLEAN : statsResponse(req, ok)
PerformContainerAction ==
    \E containerId \in ContainerIds, action \in DashboardActions, ok \in BOOLEAN :
        performContainerAction(containerId, action, ok)

InitDashboard ==
    /\ EditorIdle
    /\ MonitoringIdle

NextDashboard ==
    \/ FetchContainersSettled
    \/ statsInterval
    \/ StatsResponse
    \/ PerformContainerAction
    \/ toggleAutoRefresh
    \/ manualRefresh

SpecDashboard == InitDashboard /\ [][NextDashboard]_vars

(***************************************************************************)
(* Properties.                                                             *)
(***************************************************************************)

\* C1: starting with no service enabled, after any sequence of single-service
\* toggles every enabled service has all its transitive dependencies enabled.
C1_ForwardClosure == ForwardClosed(customServices)

\* C2: disabling a non-required service S leaves S and every service that
\* depends on S, directly or transitively, disabled.
C2_DisableCascadeTransitive ==
    [][\A s \in ServiceIdsOf(Definitions) :
          (/\ customServices # None
           /\ ~customServices.services[s].required
           /\ handleServiceToggle(s, FALSE))
          => (({s} \cup TransitiveDependents(customServices, s))
                 \cap Enabled(customServices') = {})]_vars

\* C3: right after handleServiceToggle(S, true), S and every service in the
\* transitive closure of S's dependencies are enabled.
C3_EnableClosure ==
    [][\A s \in ServiceIdsOf(Definitions) :
          handleServiceToggle(s, TRUE)
          => (({s} \cup TransitiveDependencies(customServices, s))
                 \subseteq Enabled(customServices'))]_vars

\* an enable has pulled in a chain of two dependencies and said so
C3_Witness ==
    /\ customServices # None
    /\ saveMessage = toggleMessage("n8n-import", TRUE, <<"n8n", "supabase">>)
    /\ {"n8n-import", "n8n", "supabase"} \subseteq Enabled(customServices)

\* C4: right after handleServiceToggle(S, false), S is disabled and no enabled
\* service lists S among its own dependencies.
C4_NoEnabledDependent ==
    [][\A s \in ServiceIdsOf(Definitions) :
          handleServiceToggle(s, FALSE)
          => /\ s \notin Enabled(customServices')
             /\ \A t \in Enabled(customServices') :
                   ~Includes(customServices'.services[t].dependencies, s)]_vars

\* a disable has switched off an enabled dependent and said so
C4_Witness ==
    /\ customServices # None
    /\ saveMessage = toggleMessage("supabase", FALSE, <<"n8n">>)
    /\ {"supabase", "n8n"} \cap Enabled(customServices) = {}

RECURSIVE ToggledInAnyOrder(_, _, _, _)
ToggledInAnyOrder(cat, config, ids, enabled) ==
    IF ids = {} THEN {config}
    ELSE UNION {ToggledInAnyOrder(cat, toggledConfig(cat, config, id, enabled),
                                  ids \ {id}, enabled) : id \in ids}

ServicesOfCategory(config, category) ==
    {id \in DOMAIN config.services : config.services[id].categoryId = category}

\* C7: a bulk toggle of a category, or of all services, ends with the same
\* enabled services as single toggles of the affected services in any order.
C7_BulkEqualsSingleToggles ==
    [][/\ \A category \in CategoriesOf(Definitions), enabled \in BOOLEAN :
             handleSelectAllCategory(category, enabled)
             => \A r \in ToggledInAnyOrder(Definitions, customServices,
                            ServicesOfCategory(customServices, category), enabled) :
                   Enabled(customServices') = Enabled(r)
       /\ \A enabled \in BOOLEAN :
             handleSelectAllGlobal(enabled)
             => \A r \in ToggledInAnyOrder(Definitions, customServices,
                            DOMAIN customServices.services, enabled) :
                   Enabled(customServices') = Enabled(r)]_vars

DeclaresVariant(config, id, profile) == profile \in DOMAIN config.services[id].profiles
DeclaresPull(config, id, profile) == profile \in DOMAIN config.services[id].pull_services

\* C8: the ids passed to the start request contain, for every enabled
\* service, its profile-variant id if it declares one for the selected profile
\* and its logical id otherwise, and its pull-variant id if it declares one.
C8_StartListHasConcreteIds ==
    [][handleStartServices
       => \A s \in Enabled(customServices) :
             /\ Includes(request'.serviceIds,
                         IF DeclaresVariant(customServices, s, selectedProfile)
                         THEN customServices.services[s].profiles[selectedProfile]
                         ELSE s)
             /\ DeclaresPull(customServices, s, selectedProfile)
                => Includes(request'.serviceIds,
                            customServices.services[s].pull_services[selectedProfile])]_vars

\* C9: for every enabled service with a variant for the selected profile,
\* getEnabledServices outputs that variant id, and neither the logical id nor
\* the service's variant id for another profile.
C9_ProfileSubstitution ==
    [][handleStopServices
       => \A s \in Enabled(customServices) :
             DeclaresVariant(customServices, s, selectedProfile)
             => /\ Includes(request'.serviceIds,
                            customServices.services[s].profiles[selectedProfile])
                /\ ~Includes(request'.serviceIds, s)
                /\ \A q \in DOMAIN customServices.services[s].profiles \ {selectedProfile} :
                      ~Includes(request'.serviceIds, customServices.services[s].profiles[q])]_vars

\* the list computed under gpu-nvidia holds ollama-gpu alone for ollama
C9_Witness ==
    /\ request # None
    /\ request.kind = "stop"
    /\ selectedProfile = "gpu-nvidia"
    /\ "ollama" \in Enabled(customServices)
    /\ Includes(request.serviceIds, "ollama-gpu")
    /\ ~Includes(request.serviceIds, "ollama")
    /\ ~Includes(request.serviceIds, "ollama-cpu")

PullIds(config) ==
    UNION {{config.services[id].pull_services[p] :
               p \in DOMAIN config.services[id].pull_services} :
           id \in DOMAIN config.services}

\* C10: for an enabled service with a profile variant and a pull variant for
\* the selected profile the list holds both ids and not the logical id; a
\* pull-variant id is in the list only if its service is enabled and declares
\* it for the selected profile.
C10_PullVariantAppend ==
    [][handleStopServices
       => /\ \A s \in Enabled(customServices) :
                (/\ DeclaresVariant(customServices, s, selectedProfile)
                 /\ DeclaresPull(customServices, s, selectedProfile))
                => /\ Includes(request'.serviceIds,
                               customServices.services[s].profiles[selectedProfile])
                   /\ Includes(request'.serviceIds,
                               customServices.services[s].pull_services[selectedProfile])
                   /\ ~Includes(request'.serviceIds, s)
          /\ \A x \in Range(request'.serviceIds) \cap PullIds(customServices) :
                \E s \in Enabled(customServices) :
                   /\ DeclaresPull(customServices, s, selectedProfile)
                   /\ customServices.services[s].pull_services[selectedProfile] = x]_vars

\* the list computed under cpu holds ollama-cpu and ollama-pull-llama-cpu
C10_Witness ==
    /\ request # None
    /\ request.kind = "stop"
    /\ selectedProfile = "cpu"
    /\ "ollama" \in Enabled(customServices)
    /\ Includes(request.serviceIds, "ollama-cpu")
    /\ Includes(request.serviceIds, "ollama-pull-llama-cpu")
    /\ ~Includes(request.serviceIds, "ollama")

\* the toggle about to happen is a disable of s right after an enable of s
\* that found s disabled
DisablesJustEnabled(s) ==
    /\ lastToggle # None
    /\ lastToggle.enabled
    /\ lastToggle.serviceId = s
    /\ s \notin lastToggle.before
    /\ handleServiceToggle(s, FALSE)

\* C11: enabling then immediately disabling the same service S returns the
\* set of enabled services to what it was before the enable, except for
\* services that another still-enabled service depends on.
C11_EnableDisableRoundTrip ==
    [][\A s \in ServiceIdsOf(Definitions) :
          DisablesJustEnabled(s)
          => \A x \in ServiceIdsOf(Definitions) :
                (x \in Enabled(customServices')) # (x \in lastToggle.before)
                => \E t \in Enabled(customServices') \ {x} :
                      x \in TransitiveDependencies(customServices', t)]_vars

\* C11, amended: enabling a disabled service S and then immediately disabling
\* it leaves S disabled, every service S depends on (directly or
\* transitively) enabled, every service that lists S as a dependency
\* disabled, and every other service's flag as it was before the enable.
C11_RoundTripKeepsDependencies ==
    [][\A s \in ServiceIdsOf(Definitions) :
          DisablesJustEnabled(s)
          => Enabled(customServices') =
                (lastToggle.before \cup TransitiveDependencies(customServices, s))
                   \ ({s} \cup DirectDependents(customServices, s))]_vars

\* n8n-import was enabled from nothing and disabled again: its dependencies
\* n8n and supabase stay enabled
C11_Witness ==
    /\ customServices # None
    /\ lastToggle # None
    /\ lastToggle.serviceId = "n8n-import"
    /\ lastToggle.roundTrip = [from |-> {}]
    /\ Enabled(customServices) = {"n8n", "supabase"}

\* C20: toggling a service id that is not in the configuration, either way,
\* leaves the enabled flag of every service as it was.
C20_UnknownToggleNoOp ==
    [][\A u \in UnknownServiceIds, enabled \in BOOLEAN :
          handleServiceToggle(u, enabled)
          => /\ DOMAIN customServices'.services = DOMAIN customServices.services
             /\ Enabled(customServices') = Enabled(customServices)]_vars

\* an unknown id was toggled while services were enabled, and they still are
C20_Witness ==
    /\ customServices # None
    /\ lastToggle # None
    /\ lastToggle.serviceId \in UnknownServiceIds
    /\ lastToggle.before = {"n8n", "supabase"}
    /\ Enabled(customServices) = {"n8n", "supabase"}

\* the "Required by" list the service's row shows
requiredBy(t) == getServicesDependingOn(Definitions, customServices, t)

C14_LoadFailureDegrades ==
    [][LoadFailed
       => /\ customServices' # None
          /\ Enabled(customServices') =
                {id \in ServiceIdsOf(Definitions) : Definitions.defs[id].required}]_vars

\* C17: the selected profile is always one of the enumerated profiles and the
\* selected environment one of the enumerated environments, whatever stored
\* preference state is loaded and whatever is selected.
C17_SelectionsEnumerated ==
    /\ selectedProfile \in ProfileNames
    /\ selectedEnvironment \in EnvironmentNames

\* the file holds, as text, the services and preferences given
Persisted(f, config, profile, environment) ==
    /\ f # None
    /\ parse(f.text).ok
    /\ parse(f.text).body.services = storedForm(config).services
    /\ parse(f.text).body.userPreferences =
          [selectedProfile |-> profile, selectedEnvironment |-> environment]

\* a single-service toggle, a bulk toggle, a profile or an environment
\* selection
StateAffectingAction ==
    \/ \E serviceId \in ServiceIdsOf(Definitions), enabled \in BOOLEAN :
          handleServiceToggle(serviceId, enabled)
    \/ \E category \in CategoriesOf(Definitions), enabled \in BOOLEAN :
          handleSelectAllCategory(category, enabled)
    \/ \E enabled \in BOOLEAN : handleSelectAllGlobal(enabled)
    \/ \E profile \in ProfileNames : setSelectedProfile(profile)
    \/ \E environment \in EnvironmentNames : setSelectedEnvironment(environment)

C15_SaveFailureSurfaced ==
    [][/\ handleSaveConfiguration => Enabled(customServices') = Enabled(customServices)
       /\ (saveConfigurationResponse /\ postAt("ui", "failed"))
          => /\ error' # None
             /\ error'.text = "Failed to save configuration"
             /\ saveMessage' = saveMessage
             /\ Enabled(customServices') = Enabled(customServices)]_vars

\* a save has failed: the error is shown, no message, and ollama, enabled
\* after Save Configuration was pressed, is still enabled
C15_Witness ==
    /\ customServices # None
    /\ request = None
    /\ error # None
    /\ error.text = "Failed to save configuration"
    /\ saveMessage = None
    /\ lastSaved = None
    /\ file = None
    /\ Enabled(customServices) = {"ollama"}

\* a save has succeeded and no save was attempted since
SavedAndQuiet == lastSaved # None /\ lastSaved.state \in {"stored", "restored"}

\* C18: after the operator selects profile P and environment E and Save
\* Configuration succeeds, a subsequent load answers with the file and
\* restores selectedProfile = P, selectedEnvironment = E and the same
\* enabled flag for every catalog service.
C18_ProfilePersistenceRoundTrip ==
    [][SavedAndQuiet
       => /\ getCustomServicesResponse(file).ok
          /\ LoadStored
             => /\ selectedProfile' = lastSaved.profile
                /\ selectedEnvironment' = lastSaved.environment
                /\ Enabled(customServices') = lastSaved.enabled]_vars

\* gpu-nvidia, public and ollama were saved and a later load has restored them
C18_Witness ==
    /\ customServices # None
    /\ lastSaved # None
    /\ lastSaved.state = "restored"
    /\ lastSaved.profile = "gpu-nvidia"
    /\ lastSaved.environment = "public"
    /\ lastSaved.enabled = {"ollama"}
    /\ selectedProfile = "gpu-nvidia"
    /\ selectedEnvironment = "public"
    /\ Enabled(customServices) = {"ollama"}

\* C16: when two save requests are processed concurrently, after both have
\* completed the preference file holds exactly the complete configuration of
\* one of the two requests, never a mixture of both.
C16_LastWriterWins ==
    (postAt("ui", "done") /\ postAt("other", "done"))
    => /\ file # None
       /\ file.text \in {posts["ui"].text, posts["other"].text}

\* the configuration as it was before the last toggle: toggles change
\* enabled flags only
configBeforeLastToggle ==
    [customServices EXCEPT !.services =
        [id \in DOMAIN customServices.services |->
            [customServices.services[id] EXCEPT !.enabled = id \in lastToggle.before]]]

\* the last toggle was an enable
JustEnabled == lastToggle # None /\ lastToggle.enabled

\* C21: enabling S then T leaves the same set of enabled services as
\* enabling T then S from the same configuration, and enabling S a second
\* time leaves the set as the first enable left it.
C21_EnableOrderIndependent ==
    [][JustEnabled
       => \A t \in ServiceIdsOf(Definitions) \cup UnknownServiceIds :
             handleServiceToggle(t, TRUE)
             => LET s == lastToggle.serviceId
                IN  /\ Enabled(customServices') =
                          Enabled(toggledConfig(Definitions,
                                     toggledConfig(Definitions, configBeforeLastToggle,
                                                   t, TRUE),
                                     s, TRUE))
                    /\ s = t => Enabled(customServices') = Enabled(customServices)]_vars

\* ollama was enabled while n8n-import was on without its dependencies, then
\* n8n: the result is what n8n then ollama gives
C21_Witness ==
    /\ customServices # None
    /\ lastToggle # None
    /\ lastToggle.serviceId = "n8n"
    /\ lastToggle.second = [first |-> "ollama", from |-> {"n8n-import"}]
    /\ Enabled(customServices) = {"n8n-import", "n8n", "supabase", "ollama"}

\* C22: for any stored preference state, the merged configuration has
\* exactly the services of the catalog (stored entries under an id or a
\* category the catalog does not have are ignored), each with the catalog's
\* dependencies and required flag, not the stored ones, and every
\* non-required service of the catalog without a stored entry is disabled.
C22_MergeForwardCompatible ==
    [][LoadEarlier
       => LET stored == lastSaved.serviceState
              merged == customServices'.services
              defs == Definitions.defs
          IN  /\ DOMAIN merged = ServiceIdsOf(Definitions)
              /\ \A id \in ServiceIdsOf(Definitions) :
                    /\ merged[id].dependencies = defs[id].dependencies
                    /\ merged[id].required = defs[id].required
                    /\ merged[id].categoryId = defs[id].categoryId
                    /\ (/\ ~defs[id].required
                        /\ <<defs[id].categoryId, id>> \notin DOMAIN stored.services)
                       => ~merged[id].enabled]_vars

\* the shipped catalog loaded a file of the legacy definitions (caddy
\* required, n8n depending on n8n-import) that enables localai-ui and caddy
\* under utilities and has no entry for caddy under core: caddy is merged
\* disabled, not required, and n8n depends on supabase alone
C22_Witness ==
    /\ catalog = "shipped-workflow"
    /\ customServices # None
    /\ lastSaved # None
    /\ lastSaved.state = "earlier build"
    /\ lastSaved.serviceState.storedDefinitions = defaultCustomServices
    /\ DOMAIN lastSaved.serviceState.services =
          {<<"core", "localai-ui">>, <<"utilities", "caddy">>, <<"ai_platforms", "n8n">>}
    /\ Enabled(customServices) = {"n8n"}
    /\ ~customServices.services["caddy"].required
    /\ customServices.services["n8n"].dependencies = <<"supabase">>

\* C26: in the shipped catalog every id listed in a service's dependencies
\* is the id of a service the catalog defines, and no service is reachable
\* from itself along dependency edges.
C26_CatalogWellFormedDag ==
    /\ catalog = "shipped"
    /\ \A id \in ServiceIdsOf(Definitions) :
          Range(Definitions.defs[id].dependencies) \subseteq ServiceIdsOf(Definitions)
    /\ \A id \in ServiceIdsOf(Definitions) :
          id \notin TransitiveDependencies([services |-> Definitions.defs], id)
    /\ customServices # None
       => \A id \in DOMAIN customServices.services :
             /\ Range(customServices.services[id].dependencies)
                   \subseteq DOMAIN customServices.services
             /\ id \notin TransitiveDependencies(customServices, id)

\* on the whole catalog langfuse-web was enabled from nothing: its five
\* dependencies, all services of the catalog, are enabled with it
C26_Witness ==
    /\ catalog = "shipped"
    /\ customServices # None
    /\ Cardinality(ServiceIdsOf(Definitions)) = 16
    /\ lastToggle # None
    /\ lastToggle.serviceId = "langfuse-web"
    /\ lastToggle.before = {}
    /\ Enabled(customServices) =
          {"langfuse-web", "langfuse-worker", "postgres", "clickhouse", "redis", "minio"}

\* the number of dependency edges of a configuration
RECURSIVE DependencyEdges(_, _)
DependencyEdges(config, ids) ==
    IF ids = {} THEN 0
    ELSE LET id == CHOOSE x \in ids : TRUE
         IN  Len(config.services[id].dependencies) + DependencyEdges(config, ids \ {id})

\* C27: for every catalog, catalogs with dependency cycles included, the
\* walk of handleServiceToggle(S, true) terminates (it makes no more calls
\* of getServiceDependencies than one for S and one per dependency edge) and
\* the toggle leaves S and every service reachable from S along dependency
\* edges enabled.
C27_CycleTolerantEnable ==
    customServices # None
    => \A s \in ServiceIdsOf(Definitions) :
          /\ getServiceDependenciesFrom(customServices, s, {}).calls
                <= 1 + DependencyEdges(customServices, DOMAIN customServices.services)
          /\ ({s} \cup TransitiveDependencies(customServices, s))
                \subseteq Enabled(toggledConfig(Definitions, customServices, s, TRUE))

\* in the ring A -> B -> C -> A, enabling A from nothing enabled all three
C27_Witness ==
    /\ customServices # None
    /\ customServices.services["A"].dependencies = <<"B">>
    /\ customServices.services["B"].dependencies = <<"C">>
    /\ customServices.services["C"].dependencies = <<"A">>
    /\ lastToggle # None
    /\ lastToggle.serviceId = "A"
    /\ lastToggle.before = {}
    /\ Enabled(customServices) = {"A", "B", "C"}

\* the services whose flag a toggle of s may change, besides s
cascadeFrame(config, s, enabled) ==
    IF s \notin DOMAIN config.services THEN {}
    ELSE IF enabled THEN TransitiveDependencies(config, s)
    ELSE DirectDependents(config, s)

\* C28: a single-service toggle of S changes enabled flags only: the
\* dependencies, required flag, profile-variant and pull-variant maps of
\* every service and the selected profile and environment stay as they
\* were, and so does the enabled flag of every service that is not S, not a
\* transitive dependency of S (on enable) and not a direct dependent of S
\* (on disable).  S and the direction are those lastToggle records of the
\* step.
C28_ToggleFrame ==
    [][(/\ lastToggle' # None
        /\ handleServiceToggle(lastToggle'.serviceId, lastToggle'.enabled))
       => LET s == lastToggle'.serviceId
              enabled == lastToggle'.enabled
          IN  /\ DOMAIN customServices'.services = DOMAIN customServices.services
              /\ \A id \in DOMAIN customServices.services :
                    /\ customServices'.services[id].dependencies =
                          customServices.services[id].dependencies
                    /\ customServices'.services[id].required =
                          customServices.services[id].required
                    /\ customServices'.services[id].profiles =
                          customServices.services[id].profiles
                    /\ customServices'.services[id].pull_services =
                          customServices.services[id].pull_services
                    /\ id \notin {s} \cup cascadeFrame(customServices, s, enabled)
                       => customServices'.services[id].enabled =
                             customServices.services[id].enabled
              /\ customServices'.userPreferences = customServices.userPreferences
              /\ selectedProfile' = selectedProfile
              /\ selectedEnvironment' = selectedEnvironment]_vars

\* n8n-import was enabled while ollama was on and gpu-nvidia was the loaded
\* profile: n8n and supabase came on, ollama kept its flag and its variant
\* maps, n8n-import its dependency, and the profile is still gpu-nvidia
C28_Witness ==
    /\ customServices # None
    /\ lastToggle # None
    /\ lastToggle.serviceId = "n8n-import"
    /\ lastToggle.enabled
    /\ lastToggle.before = {"ollama"}
    /\ Enabled(customServices) = {"ollama", "n8n-import", "n8n", "supabase"}
    /\ customServices.services["ollama"].profiles = OllamaProfiles
    /\ customServices.services["ollama"].pull_services = OllamaPullServices
    /\ customServices.services["n8n-import"].dependencies = <<"n8n">>
    /\ selectedProfile = "gpu-nvidia"

\* the text output/custom_services.json holds while its writer's request
\* is still at the backend
outputText == posts[outputFile.writer].text

\* C29: after any interleaving of concurrent save requests has completed
\* without error, output/custom_services.json and
\* shared/custom_services.json hold the same configuration.
C29_CopiesAgree ==
    (postAt("ui", "done") /\ postAt("other", "done"))
    => /\ file # None
       /\ outputFile # None
       /\ file.text = outputText

\* the action requests at the backend whose action is none of the five
InvalidActionRequests ==
    {slot \in ApiSlots : /\ apiRequests[slot] # None
                         /\ apiRequests[slot].endpoint = "action"
                         /\ apiRequests[slot].action \notin ValidActions}

\* C24: a container action request whose action is not one of start, stop,
\* restart, pause, unpause is rejected with an error response and never
\* results in a call to the Docker client's action operation, whatever the
\* connection state.
C24_InvalidActionRejected ==
    \A slot \in InvalidActionRequests :
        /\ apiRequests[slot].pc = "answered"
        /\ apiRequests[slot].status \in {400, 503}
        /\ ~apiRequests[slot].called

\* two invalid action requests answered, one that arrived with the
\* connection up and one with it down
C24_Witness ==
    \E up, down \in InvalidActionRequests :
        /\ apiRequests[up].connected /\ apiRequests[up].status = 400
        /\ ~apiRequests[down].connected /\ apiRequests[down].status = 503
        /\ apiRequests[up].action = Undefined
        /\ apiRequests[down].action = "remove"

\* C30: in every reachable state of the backend, isConnected() returns true
\* only if a Docker ping (testConnection) has succeeded and no later ping
\* has failed; while it returns false, the stats, logs and action endpoints
\* answer 503 without calling the Docker client.
C30_ConnectedOnlyAfterPing ==
    /\ isConnected => lastPing = "succeeded"
    /\ \A slot \in ApiSlots :
           (/\ apiRequests[slot] # None
            /\ apiRequests[slot].endpoint \in {"stats", "logs", "action"}
            /\ ~apiRequests[slot].connected)
           => /\ apiRequests[slot].pc = "answered"
              /\ apiRequests[slot].status = 503
              /\ ~apiRequests[slot].called

\* word occurs in message, each character in its small or its capital form
containsIgnoringCase(message, small, capital) ==
    \E i \in 1..(Len(message) - Len(small) + 1) :
        \A k \in 1..Len(small) : message[i + k - 1] \in {small[k], capital[k]}

hasError(message) ==
    containsIgnoringCase(message, <<"e", "r", "r", "o", "r">>, <<"E", "R", "R", "O", "R">>)
hasFatal(message) ==
    containsIgnoringCase(message, <<"f", "a", "t", "a", "l">>, <<"F", "A", "T", "A", "L">>)
hasWarn(message) ==
    containsIgnoringCase(message, <<"w", "a", "r", "n">>, <<"W", "A", "R", "N">>)
hasDebug(message) ==
    containsIgnoringCase(message, <<"d", "e", "b", "u", "g">>, <<"D", "E", "B", "U", "G">>)

\* the entries of the logs responses at the backend
LogEntries ==
    UNION {{apiRequests[slot].body[i] : i \in DOMAIN apiRequests[slot].body} :
              slot \in {s \in ApiSlots : /\ apiRequests[s] # None
                                         /\ apiRequests[s].endpoint = "logs"
                                         /\ apiRequests[s].status = 200}}

\* C25: log level inference has a fixed precedence: a message containing
\* 'error' or 'fatal' (case-insensitively) is level error; otherwise one
\* containing 'warn' is warn; otherwise one containing 'debug' is debug;
\* otherwise info, for every combination of these substrings being present
\* or absent.
C25_LogLevelPrecedence ==
    \A entry \in LogEntries :
        entry.level =
            IF hasError(entry.message) \/ hasFatal(entry.message) THEN "error"
            ELSE IF hasWarn(entry.message) THEN "warn"
            ELSE IF hasDebug(entry.message) THEN "debug"
            ELSE "info"

\* a line with all four words is error; one with warn and debug only is warn
C25_Witness ==
    \E entry \in LogEntries :
        /\ hasError(entry.message) /\ hasFatal(entry.message)
        /\ hasWarn(entry.message) /\ hasDebug(entry.message)
        /\ entry.level = "error"

\* this step settles req, a fetch that was sent, as pc
Settles(req, pc) ==
    /\ req.pc = "sent"
    /\ statsRequests' = (statsRequests \ {req}) \cup {[req EXCEPT !.pc = pc]}

OtherStatsKept(req) ==
    \A id \in ContainerIds \ {req.containerId} :
        monitoring'.containerStats[id] = monitoring.containerStats[id]

\* C23: a failed stats request for one container leaves the recorded stats
\* of every other container and the dashboard's error state unchanged, and
\* in every interleaving of request completions each successful stats
\* response ends up recorded under its own container id.
C23_StatsIsolation ==
    [][/\ \A req \in statsRequests :
              /\ Settles(req, "failed")
                 => /\ OtherStatsKept(req)
                    /\ monitoring'.error = monitoring.error
              /\ Settles(req, "recorded")
                 => /\ OtherStatsKept(req)
                    /\ monitoring'.containerStats[req.containerId] =
                           [of |-> req.containerId, sample |-> req.sample]
       /\ \A id \in ContainerIds :
              monitoring'.containerStats[id] # None
              => monitoring'.containerStats[id].of = id]_vars

\* c1's second fetch failed after c2's stats were recorded, the answers
\* arriving out of the order of the requests, and nothing is reported
C23_Witness ==
    /\ [containerId |-> "c1", sample |-> 2, pc |-> "failed"] \in statsRequests
    /\ [containerId |-> "c1", sample |-> 1, pc |-> "sent"] \in statsRequests
    /\ [containerId |-> "c2", sample |-> 1, pc |-> "recorded"] \in statsRequests
    /\ monitoring.containerStats["c2"] = [of |-> "c2", sample |-> 1]
    /\ monitoring.containerStats["c1"] = None
    /\ monitoring.error = None

=============================================================================
